---- MODULE Spec2Model ----
(***************************************************************************)
(* Darts-clone 0.32g (include/darts.h): the DAWG builder, the DAWG ->       *)
(* double-array converter and the reader DoubleArrayImpl, as one state      *)
(* machine.  A 32-bit unsigned word (id_type) is the pair <<hi, lo>> of its *)
(* two 16-bit halves, so that every operation keeps the width of the C++    *)
(* arithmetic (mod 2^32).  Arrays are sequences read through At (0-based).  *)
(***************************************************************************)
EXTENDS Integers, Sequences, FiniteSets, TLC

\* ------------------------------------------------------------------------
\* Bounds of the model
\* ------------------------------------------------------------------------

\* keys handed to build(), summed over all build() calls of a behaviour
MaxKeys == 2
\* bytes per key
MaxLen == 2

\* ------------------------------------------------------------------------
\* 32-bit unsigned arithmetic on <<hi, lo>>
\* ------------------------------------------------------------------------

Half == 256 * 256

\* a & b on the low eight bits
And8(a, b) ==
  (((a % 2) * (b % 2) + 2 * (((a \div 2) % 2) * ((b \div 2) % 2)))
    + (4 * (((a \div 4) % 2) * ((b \div 4) % 2))
        + 8 * (((a \div 8) % 2) * ((b \div 8) % 2))))
  + ((16 * (((a \div 16) % 2) * ((b \div 16) % 2))
       + 32 * (((a \div 32) % 2) * ((b \div 32) % 2)))
      + (64 * (((a \div 64) % 2) * ((b \div 64) % 2))
          + 128 * (((a \div 128) % 2) * ((b \div 128) % 2))))

RECURSIVE BitAnd(_, _)
\* a & b, eight bits at a time
BitAnd(a, b) ==
  IF a = 0 \/ b = 0 THEN 0
  ELSE And8(a, b) + 256 * BitAnd(a \div 256, b \div 256)

\* a ^ b: the bits of a + b without the carries of the common bits
BitXor(a, b) == (a + b) - 2 * BitAnd(a, b)

\* a | b
BitOr(a, b) == (a + b) - BitAnd(a, b)

\* 1 << k
Pow2(k) == 2 ^ k

\* the word of a non-negative int (0 .. 2^31 - 1)
W(n) == <<n \div Half, n % Half>>
\* the int of a word below 2^31
WInt(w) == w[1] * Half + w[2]

WXor(x, y) == <<BitXor(x[1], y[1]), BitXor(x[2], y[2])>>
WAnd(x, y) == <<BitAnd(x[1], y[1]), BitAnd(x[2], y[2])>>
WOr(x, y) == <<BitOr(x[1], y[1]), BitOr(x[2], y[2])>>
WNot(x) == <<Half - 1 - x[1], Half - 1 - x[2]>>

\* x << k, 0 <= k < 32, bits shifted beyond bit 31 are lost
WShl(x, k) ==
  IF k = 0 THEN x
  ELSE IF k >= 16 THEN <<(x[2] % Pow2(32 - k)) * Pow2(k - 16), 0>>
  ELSE <<(x[1] % Pow2(16 - k)) * Pow2(k) + (x[2] \div Pow2(16 - k)),
         (x[2] % Pow2(16 - k)) * Pow2(k)>>

\* x >> k, 0 <= k < 32 (logical)
WShr(x, k) ==
  IF k = 0 THEN x
  ELSE IF k >= 16 THEN <<0, x[1] \div Pow2(k - 16)>>
  ELSE <<x[1] \div Pow2(k),
         (x[1] % Pow2(k)) * Pow2(16 - k) + (x[2] \div Pow2(k))>>

\* x + y mod 2^32
WAdd(x, y) ==
  LET lo == x[2] + y[2]
  IN  <<(x[1] + y[1] + (lo \div Half)) % Half, lo % Half>>

\* x * m mod 2^32, for a multiplier m < 2^15
WMul(x, m) ==
  LET lo == x[2] * m
  IN  <<(x[1] * m + (lo \div Half)) % Half, lo % Half>>

\* x % m for 0 < m <= 2^15
WMod(x, m) == (((x[1] % m) * (Half % m)) + x[2]) % m

\* 0-based read of a sequence
At(s, i) == s[i + 1]
\* 0-based write
Put(s, i, v) == [s EXCEPT ![i + 1] = v]

\* a local variable of the source: F applied to the value v just computed
With(v, F(_)) == F(v)

\* the same, with v computed before F is applied, as a statement of the
\* source computes its value before the next statement runs
Then(v, F(_)) == CASE v = v -> F(v)

\* ------------------------------------------------------------------------
\* DoubleArrayUnit: one 32-bit element of the finished double-array
\* ------------------------------------------------------------------------

\* 1U << 31
Bit31 == <<32768, 0>>
\* (1U << 31) - 1
Low31 == <<32767, Half - 1>>

\* ((unit_ >> 8) & 1) == 1
has_leaf(unit) == WAnd(WShr(unit, 8), W(1)) = W(1)
\* static_cast<value_type>(unit_ & ((1U << 31) - 1))
value(unit) == WInt(WAnd(unit, Low31))
\* unit_ & ((1U << 31) | 0xFF), an id_type: kept as a word
label(unit) == WAnd(unit, WOr(Bit31, W(255)))
\* (unit_ >> 10) << ((unit_ & (1U << 9)) >> 6), below 2^30
offset(unit) == WInt(WShl(WShr(unit, 10), WInt(WShr(WAnd(unit, W(512)), 6))))

\* ------------------------------------------------------------------------
\* DoubleArrayBuilderUnit: the same word while it is being built
\* ------------------------------------------------------------------------

set_has_leaf(unit, flag) ==
  IF flag THEN WOr(unit, W(256)) ELSE WAnd(unit, WNot(W(256)))
\* a faulty set_value: the value flag (1U << 31) is left out
set_value_no_flag(unit, v) == W(v)
\* unit_ = value | (1U << 31), value >= 0
set_value(unit, v) == WOr(W(v), Bit31)
\* unit_ = (unit_ & ~0xFFU) | label
set_label(unit, l) == WOr(WAnd(unit, WNot(W(255))), W(l))
\* offset >= 1U << 29 throws "too large offset"
offset_too_large(off) == off >= Pow2(29)
set_offset(unit, off) ==
  LET kept == WAnd(unit, WOr(Bit31, W(256 + 255)))
  IN  IF off < Pow2(21) THEN WOr(kept, WShl(W(off), 10))
      ELSE WOr(kept, WOr(WShl(W(off), 2), W(512)))

\* ------------------------------------------------------------------------
\* DawgNode (mutable node of the DAWG under construction) and DawgUnit
\* ------------------------------------------------------------------------

\* DawgNode(): child_(0), sibling_(0), label_('\0'), is_state_(false),
\* has_sibling_(false); child_ holds the value of a node with label '\0'
DawgNode ==
  [child |-> 0, sibling |-> 0, label |-> 0, is_state |-> FALSE,
   has_sibling |-> FALSE]

DawgNode_unit(n) ==
  IF n.label = 0
    THEN WOr(WShl(W(n.child), 1), W(IF n.has_sibling THEN 1 ELSE 0))
    ELSE WOr(WOr(WShl(W(n.child), 2), W(IF n.is_state THEN 2 ELSE 0)),
             W(IF n.has_sibling THEN 1 ELSE 0))

\* unit_ >> 2
DawgUnit_child(unit) == WInt(WShr(unit, 2))
\* (unit_ & 1) == 1
DawgUnit_has_sibling(unit) == WAnd(unit, W(1)) = W(1)
\* a faulty DawgUnit::value: the shift of child() is used
DawgUnit_value_as_child(unit) == WInt(WShr(unit, 2))
\* static_cast<value_type>(unit_ >> 1)
DawgUnit_value(unit) == WInt(WShr(unit, 1))
\* (unit_ & 2) == 2
DawgUnit_is_state(unit) == WAnd(unit, W(2)) = W(2)

\* the 32-bit mix function of DawgBuilder::hash
hash(key) ==
  Then(WAdd(WNot(key), WShl(key, 15)), LAMBDA k1 :
  Then(WXor(k1, WShr(k1, 12)), LAMBDA k2 :
  Then(WAdd(k2, WShl(k2, 2)), LAMBDA k3 :
  Then(WXor(k3, WShr(k3, 4)), LAMBDA k4 :
  Then(WMul(k4, 2057), LAMBDA k5 :
    WXor(k5, WShr(k5, 16)))))))

\* ------------------------------------------------------------------------
\* BitVector: 32-bit words units_, rank index ranks_, num_ones_, size_
\* ------------------------------------------------------------------------

\* sizeof(id_type) * 8
UNIT_SIZE == 32

BitVector == [units_ |-> <<>>, ranks_ |-> <<>>, num_ones_ |-> 0, size_ |-> 0]

BitVector_get(bv, id) ==
  WAnd(WShr(At(bv.units_, id \div UNIT_SIZE), id % UNIT_SIZE), W(1)) = W(1)

pop_count(unit) ==
  Then(WAdd(WShr(WAnd(unit, <<43690, 43690>>), 1),
            WAnd(unit, <<21845, 21845>>)), LAMBDA u1 :
  Then(WAdd(WShr(WAnd(u1, <<52428, 52428>>), 2),
            WAnd(u1, <<13107, 13107>>)), LAMBDA u2 :
  Then(WAnd(WAdd(WShr(u2, 4), u2), <<3855, 3855>>), LAMBDA u3 :
  Then(WAdd(u3, WShr(u3, 8)), LAMBDA u4 :
  Then(WAdd(u4, WShr(u4, 16)), LAMBDA u5 :
    WInt(WAnd(u5, W(255))))))))

BitVector_rank(bv, id) ==
  LET unit_id == id \div UNIT_SIZE
  IN  At(bv.ranks_, unit_id)
        + pop_count(WAnd(At(bv.units_, unit_id),
                         WShr(WNot(W(0)), UNIT_SIZE - (id % UNIT_SIZE) - 1)))

BitVector_set(bv, id, bit) ==
  Then(WShl(W(1), id % UNIT_SIZE), LAMBDA mask :
  Then(At(bv.units_, id \div UNIT_SIZE), LAMBDA old_unit :
    [bv EXCEPT !.units_ =
       Put(@, id \div UNIT_SIZE,
           IF bit THEN WOr(old_unit, mask) ELSE WAnd(old_unit, WNot(mask)))]))

BitVector_append(bv) ==
  [bv EXCEPT !.units_ = IF bv.size_ % UNIT_SIZE = 0 THEN Append(@, W(0)) ELSE @,
             !.size_ = @ + 1]

RECURSIVE BitVector_ranks(_, _, _)
\* the loop of BitVector::build: <<ranks_, num_ones_>>
BitVector_ranks(units, i, acc) ==
  IF i = Len(units) THEN acc
  ELSE BitVector_ranks(units, i + 1,
         <<Append(acc[1], acc[2]), acc[2] + pop_count(At(units, i))>>)

BitVector_build(bv) ==
  Then(BitVector_ranks(bv.units_, 0, <<(<<>>), 0>>), LAMBDA r :
    [bv EXCEPT !.ranks_ = r[1], !.num_ones_ = r[2]])

\* ------------------------------------------------------------------------
\* DawgBuilder
\* ------------------------------------------------------------------------

\* 1 << 10
INITIAL_TABLE_SIZE == 1024

\* a label_ appended by AutoPool<uchar_type>::append() is not initialised
Uninitialised == "uninitialised"

\* table_ is kept sparse: size is table_.size(), ent holds the non-zero slots
Table_get(t, i) == IF i \in DOMAIN t.ent THEN t.ent[i] ELSE 0
Table_put(t, i, v) ==
  [t EXCEPT !.ent = IF i \in DOMAIN @ THEN [@ EXCEPT ![i] = v] ELSE (i :> v) @@ @]

\* the state of a default-constructed DawgBuilder
DawgBuilder ==
  [nodes_ |-> <<>>, units_ |-> <<>>, labels_ |-> <<>>,
   is_intersections_ |-> BitVector, table_ |-> [size |-> 0, ent |-> <<>>],
   node_stack_ |-> <<>>, recycle_bin_ |-> <<>>, num_states_ |-> 0]

Top(stack) == stack[Len(stack)]
Pop(stack) == SubSeq(stack, 1, Len(stack) - 1)

\* <<builder, id of the new unit>>
append_unit(d) ==
  Then([d EXCEPT !.is_intersections_ = BitVector_append(@),
                 !.units_ = Append(@, W(0)),
                 !.labels_ = Append(@, Uninitialised)], LAMBDA d1 :
    <<d1, d1.is_intersections_.size_ - 1>>)

\* <<builder, id of the new node>>
append_node(d) ==
  IF d.recycle_bin_ = <<>>
    THEN <<[d EXCEPT !.nodes_ = Append(@, DawgNode)], Len(d.nodes_)>>
    ELSE LET id == Top(d.recycle_bin_)
         IN  <<[d EXCEPT !.nodes_ = Put(@, id, DawgNode),
                         !.recycle_bin_ = Pop(@)], id>>

free_node(d, id) == [d EXCEPT !.recycle_bin_ = Append(@, id)]

RECURSIVE hash_unit_from(_, _, _)
hash_unit_from(d, id, hash_value) ==
  IF id = 0 THEN hash_value
  ELSE Then(WXor(hash_value,
                 hash(WXor(WShl(W(At(d.labels_, id)), 24), At(d.units_, id)))),
            LAMBDA h :
              IF ~DawgUnit_has_sibling(At(d.units_, id)) THEN h
              ELSE hash_unit_from(d, id + 1, h))

hash_unit(d, id) == hash_unit_from(d, id, W(0))

RECURSIVE hash_node_from(_, _, _)
hash_node_from(d, id, hash_value) ==
  IF id = 0 THEN hash_value
  ELSE Then(WXor(hash_value,
                 hash(WXor(WShl(W(At(d.nodes_, id).label), 24),
                           DawgNode_unit(At(d.nodes_, id))))),
            LAMBDA h : hash_node_from(d, At(d.nodes_, id).sibling, h))

hash_node(d, id) == hash_node_from(d, id, W(0))

RECURSIVE are_equal_count(_, _, _)
\* first loop of are_equal: the unit id reached, or -1 for "return false"
are_equal_count(d, i, unit_id) ==
  IF i = 0 THEN unit_id
  ELSE IF ~DawgUnit_has_sibling(At(d.units_, unit_id)) THEN -1
  ELSE are_equal_count(d, At(d.nodes_, i).sibling, unit_id + 1)

RECURSIVE are_equal_compare(_, _, _)
\* second loop of are_equal
are_equal_compare(d, i, unit_id) ==
  IF i = 0 THEN TRUE
  ELSE IF DawgNode_unit(At(d.nodes_, i)) # At(d.units_, unit_id)
          \/ At(d.nodes_, i).label # At(d.labels_, unit_id) THEN FALSE
  ELSE are_equal_compare(d, At(d.nodes_, i).sibling, unit_id - 1)

are_equal(d, node_id, unit_id) ==
  Then(are_equal_count(d, At(d.nodes_, node_id).sibling, unit_id), LAMBDA last_id :
    IF last_id = -1 THEN FALSE
    ELSE IF DawgUnit_has_sibling(At(d.units_, last_id)) THEN FALSE
    ELSE are_equal_compare(d, node_id, last_id))

RECURSIVE find_unit_probe(_, _)
find_unit_probe(d, hash_id) ==
  IF Table_get(d.table_, hash_id) = 0 THEN hash_id
  ELSE find_unit_probe(d, (hash_id + 1) % d.table_.size)

\* <<0, hash_id>>
find_unit(d, id) ==
  <<0, find_unit_probe(d, WMod(hash_unit(d, id), d.table_.size))>>

RECURSIVE find_node_probe(_, _, _)
find_node_probe(d, node_id, hash_id) ==
  Then(Table_get(d.table_, hash_id), LAMBDA unit_id :
    IF unit_id = 0 THEN <<0, hash_id>>
    ELSE IF are_equal(d, node_id, unit_id) THEN <<unit_id, hash_id>>
    ELSE find_node_probe(d, node_id, (hash_id + 1) % d.table_.size))

\* <<match id or 0, hash_id>>
find_node(d, node_id) ==
  find_node_probe(d, node_id, WMod(hash_node(d, node_id), d.table_.size))

\* expand_table that registers the groups headed by an is_state unit only
expand_table_step_states_only(d, id) ==
  IF DawgUnit_is_state(At(d.units_, id))
    THEN [d EXCEPT !.table_ = Table_put(@, find_unit(d, id)[2], id)]
    ELSE d

\* one iteration of the for loop of expand_table
expand_table_step(d, id) ==
  IF At(d.labels_, id) = 0 \/ DawgUnit_is_state(At(d.units_, id))
    THEN [d EXCEPT !.table_ = Table_put(@, find_unit(d, id)[2], id)]
    ELSE d

RECURSIVE expand_table_range(_, _, _)
\* the iterations of the for loop for the ids lo .. hi - 1, in ascending
\* order; the range is halved, and the first half has run before the second
\* half starts, so that the evaluation stays shallow
expand_table_range(d, lo, hi) ==
  IF hi - lo <= 1 THEN (IF lo < hi THEN expand_table_step(d, lo) ELSE d)
  ELSE Then(expand_table_range(d, lo, (lo + hi) \div 2), LAMBDA d1 :
         expand_table_range(d1, (lo + hi) \div 2, hi))

expand_table_from(d, i) == expand_table_range(d, i, Len(d.units_))

expand_table(d) ==
  expand_table_from(
    [d EXCEPT !.table_ = [size |-> d.table_.size * 2, ent |-> <<>>]], 1)

RECURSIVE num_siblings_from(_, _)
num_siblings_from(d, i) ==
  IF i = 0 THEN 0 ELSE 1 + num_siblings_from(d, At(d.nodes_, i).sibling)

RECURSIVE flush_append_one_more(_, _, _)
\* a faulty append loop of flush: i <= num_siblings
flush_append_one_more(d, n, unit_id) ==
  Then(append_unit(d), LAMBDA a :
    IF n = 0 THEN a ELSE flush_append_one_more(a[1], n - 1, a[2]))

RECURSIVE flush_append_units(_, _, _)
\* for (i = 0; i < num_siblings; ++i) unit_id = append_unit();
flush_append_units(d, n, unit_id) ==
  IF n = 0 THEN <<d, unit_id>>
  ELSE Then(append_unit(d), LAMBDA a : flush_append_units(a[1], n - 1, a[2]))

RECURSIVE flush_write_units(_, _, _)
\* copies the sibling chain into units_/labels_, last sibling first;
\* <<builder, unit_id after the loop>>
flush_write_units(d, i, unit_id) ==
  IF i = 0 THEN <<d, unit_id>>
  ELSE flush_write_units(
         [d EXCEPT !.units_ = Put(@, unit_id, DawgNode_unit(At(d.nodes_, i))),
                   !.labels_ = Put(@, unit_id, At(d.nodes_, i).label)],
         At(d.nodes_, i).sibling, unit_id - 1)

RECURSIVE flush_free_nodes(_, _)
flush_free_nodes(d, i) ==
  IF i = 0 THEN d
  ELSE flush_free_nodes(free_node(d, i), At(d.nodes_, i).sibling)

\* the end of an iteration of flush: the sibling chain of node_id is freed
\* and nodes_[node_stack_.top()].set_child(match_id)
flush_set_child(d, node_id, match_id) ==
  Then(flush_free_nodes(d, node_id), LAMBDA d3 :
    [d3 EXCEPT !.nodes_ =
       Put(@, Top(d3.node_stack_),
           [At(@, Top(d3.node_stack_)) EXCEPT !.child = match_id])])

\* flush_node that marks the group it appends as an intersection too
flush_node_marks_new(d0, node_id) ==
  Then(IF d0.num_states_ >= d0.table_.size - (d0.table_.size \div 4)
         THEN expand_table(d0) ELSE d0, LAMBDA d1 :
  Then(find_node(d1, node_id), LAMBDA found :
    IF found[1] # 0
      THEN flush_set_child(
             [d1 EXCEPT !.is_intersections_ = BitVector_set(@, found[1], TRUE)],
             node_id, found[1])
      ELSE
        Then(flush_append_units(d1, num_siblings_from(d1, node_id), 0), LAMBDA a :
        Then(flush_write_units(a[1], node_id, a[2]), LAMBDA w :
          flush_set_child(
            [w[1] EXCEPT !.table_ = Table_put(@, found[2], w[2] + 1),
                         !.num_states_ = @ + 1,
                         !.is_intersections_ = BitVector_set(@, w[2] + 1, TRUE)],
            node_id, w[2] + 1)))))

\* one iteration of the while loop of flush, for the popped node_id
flush_node(d0, node_id) ==
  Then(IF d0.num_states_ >= d0.table_.size - (d0.table_.size \div 4)
         THEN expand_table(d0) ELSE d0, LAMBDA d1 :
  Then(find_node(d1, node_id), LAMBDA found :
    IF found[1] # 0
      THEN flush_set_child(
             [d1 EXCEPT !.is_intersections_ = BitVector_set(@, found[1], TRUE)],
             node_id, found[1])
      ELSE
        Then(flush_append_units(d1, num_siblings_from(d1, node_id), 0), LAMBDA a :
        Then(flush_write_units(a[1], node_id, a[2]), LAMBDA w :
          flush_set_child(
            [w[1] EXCEPT !.table_ = Table_put(@, found[2], w[2] + 1),
                         !.num_states_ = @ + 1],
            node_id, w[2] + 1)))))

RECURSIVE flush(_, _)
flush(d, id) ==
  IF Top(d.node_stack_) = id THEN [d EXCEPT !.node_stack_ = Pop(@)]
  ELSE Then(flush_node([d EXCEPT !.node_stack_ = Pop(@)], Top(d.node_stack_)),
            LAMBDA d1 : flush(d1, id))

init(d) ==
  LET d1 == [d EXCEPT !.table_ = [size |-> INITIAL_TABLE_SIZE, ent |-> <<>>]]
      d2 == append_node(d1)[1]
      d3 == append_unit(d2)[1]
  IN  [d3 EXCEPT !.num_states_ = 1,
                 !.nodes_ = Put(@, 0, [At(@, 0) EXCEPT !.label = 255]),
                 !.node_stack_ = Append(@, 0)]

finish(d) ==
  Then(flush(d, 0), LAMBDA d1 :
    [d1 EXCEPT !.units_ = Put(@, 0, DawgNode_unit(At(d1.nodes_, 0))),
               !.labels_ = Put(@, 0, At(d1.nodes_, 0).label),
               !.nodes_ = <<>>,
               !.table_ = [size |-> 0, ent |-> <<>>],
               !.node_stack_ = <<>>,
               !.recycle_bin_ = <<>>,
               !.is_intersections_ = BitVector_build(@)])

\* key[key_pos] for key_pos < length, '\0' at key_pos = length
key_label_at(key, length, key_pos) ==
  IF key_pos < length THEN At(key, key_pos) ELSE 0

\* insert_link that also clears is_state of the head it prepends to
insert_link_head_loses_state(d, id, child_id, key_label) ==
  Then(At(d.nodes_, id).child, LAMBDA head :
    [d EXCEPT
       !.nodes_ = Put(Put(IF head = 0 THEN @
                          ELSE Put(@, head, [At(@, head) EXCEPT !.is_state = FALSE]),
                          child_id,
                          [At(@, child_id) EXCEPT
                             !.is_state = IF head = 0 THEN TRUE ELSE @,
                             !.sibling = head,
                             !.label = key_label]),
                      id, [At(@, id) EXCEPT !.child = child_id]),
       !.node_stack_ = Append(@, child_id)])

\* the body of the second loop of insert, for the node child_id just
\* appended below id: it becomes the head of id's child list
insert_link(d, id, child_id, key_label) ==
  Then(At(d.nodes_, id).child, LAMBDA head :
    [d EXCEPT
       !.nodes_ = Put(Put(@, child_id,
                          [At(@, child_id) EXCEPT
                             !.is_state = IF head = 0 THEN TRUE ELSE @,
                             !.sibling = head,
                             !.label = key_label]),
                      id, [At(@, id) EXCEPT !.child = child_id]),
       !.node_stack_ = Append(@, child_id)])

RECURSIVE insert_descend_prefix_unchecked(_, _, _, _, _)
\* a faulty first loop of insert: the labels are compared only while
\* key_pos < length, so a key that ends inside the trie is let through
insert_descend_prefix_unchecked(d, key, length, id, key_pos) ==
  IF key_pos >= length THEN [err |-> "", d |-> d, id |-> id, key_pos |-> key_pos]
  ELSE
    Then(At(d.nodes_, id).child, LAMBDA child_id :
    Then(key_label_at(key, length, key_pos), LAMBDA key_label :
      IF child_id = 0
        THEN [err |-> "", d |-> d, id |-> id, key_pos |-> key_pos]
      ELSE IF key_label < At(d.nodes_, child_id).label
        THEN [err |-> "failed to insert key: wrong key order",
              d |-> d, id |-> id, key_pos |-> key_pos]
      ELSE IF key_label > At(d.nodes_, child_id).label
        THEN [err |-> "",
              d |-> flush([d EXCEPT !.nodes_ =
                             Put(@, child_id,
                                 [At(@, child_id) EXCEPT !.has_sibling = TRUE])],
                          child_id),
              id |-> id, key_pos |-> key_pos]
      ELSE insert_descend_prefix_unchecked(d, key, length, child_id, key_pos + 1)))

RECURSIVE insert_descend(_, _, _, _, _)
\* the first loop of insert: [err, d, id, key_pos] at its exit
insert_descend(d, key, length, id, key_pos) ==
  IF key_pos > length THEN [err |-> "", d |-> d, id |-> id, key_pos |-> key_pos]
  ELSE
    Then(At(d.nodes_, id).child, LAMBDA child_id :
    Then(key_label_at(key, length, key_pos), LAMBDA key_label :
      IF child_id = 0
        THEN [err |-> "", d |-> d, id |-> id, key_pos |-> key_pos]
      ELSE IF key_label < At(d.nodes_, child_id).label
        THEN [err |-> "failed to insert key: wrong key order",
              d |-> d, id |-> id, key_pos |-> key_pos]
      ELSE IF key_label > At(d.nodes_, child_id).label
        THEN [err |-> "",
              d |-> flush([d EXCEPT !.nodes_ =
                             Put(@, child_id,
                                 [At(@, child_id) EXCEPT !.has_sibling = TRUE])],
                          child_id),
              id |-> id, key_pos |-> key_pos]
      ELSE insert_descend(d, key, length, child_id, key_pos + 1)))

RECURSIVE insert_append(_, _, _, _, _)
\* the second loop of insert: <<builder, id of the last node>>
insert_append(d, key, length, id, key_pos) ==
  IF key_pos > length THEN <<d, id>>
  ELSE
    Then(append_node(d), LAMBDA a :
      insert_append(insert_link(a[1], id, a[2], key_label_at(key, length, key_pos)),
                    key, length, a[2], key_pos + 1))

\* a faulty insert: the test of length == 0 is left out
insert_zero_length_unchecked(d, key, length, v) ==
  IF v < 0 THEN [err |-> "failed to insert key: negative value", d |-> d]
  ELSE
    Then(insert_descend(d, key, length, 0, 0), LAMBDA r :
      IF r.err # "" THEN [err |-> r.err, d |-> r.d]
      ELSE IF r.key_pos > length THEN [err |-> "", d |-> r.d]
      ELSE Then(insert_append(r.d, key, length, r.id, r.key_pos), LAMBDA a :
             [err |-> "",
              d |-> [a[1] EXCEPT !.nodes_ =
                       Put(@, a[2], [At(@, a[2]) EXCEPT !.child = v])]]))

\* a faulty insert: the return for a key that is already there is left out,
\* so the value of its terminal node is written again
insert_value_rewritten(d, key, length, v) ==
  IF v < 0 THEN [err |-> "failed to insert key: negative value", d |-> d]
  ELSE IF length = 0 THEN [err |-> "failed to insert key: zero-length key", d |-> d]
  ELSE
    Then(insert_descend(d, key, length, 0, 0), LAMBDA r :
      IF r.err # "" THEN [err |-> r.err, d |-> r.d]
      ELSE Then(insert_append(r.d, key, length, r.id, r.key_pos), LAMBDA a :
             [err |-> "",
              d |-> [a[1] EXCEPT !.nodes_ =
                       Put(@, a[2], [At(@, a[2]) EXCEPT !.child = v])]]))

\* DawgBuilder::insert: [err |-> the message thrown or "", d |-> the builder]
insert(d, key, length, v) ==
  IF v < 0 THEN [err |-> "failed to insert key: negative value", d |-> d]
  ELSE IF length = 0 THEN [err |-> "failed to insert key: zero-length key", d |-> d]
  ELSE
    Then(insert_descend(d, key, length, 0, 0), LAMBDA r :
      IF r.err # "" THEN [err |-> r.err, d |-> r.d]
      ELSE IF r.key_pos > length THEN [err |-> "", d |-> r.d]
      ELSE Then(insert_append(r.d, key, length, r.id, r.key_pos), LAMBDA a :
             [err |-> "",
              d |-> [a[1] EXCEPT !.nodes_ =
                       Put(@, a[2], [At(@, a[2]) EXCEPT !.child = v])]]))

\* DawgBuilder::clear
DawgBuilder_clear(d) == DawgBuilder

\* accessors of the finished DAWG
Dawg_child(d, id) == DawgUnit_child(At(d.units_, id))
Dawg_sibling(d, id) == IF DawgUnit_has_sibling(At(d.units_, id)) THEN id + 1 ELSE 0
Dawg_value(d, id) == DawgUnit_value(At(d.units_, id))
Dawg_label(d, id) == At(d.labels_, id)
Dawg_is_leaf(d, id) == Dawg_label(d, id) = 0
Dawg_is_intersection(d, id) == BitVector_get(d.is_intersections_, id)
Dawg_intersection_id(d, id) == BitVector_rank(d.is_intersections_, id) - 1
Dawg_num_intersections(d) == d.is_intersections_.num_ones_
Dawg_size(d) == Len(d.units_)

\* ------------------------------------------------------------------------
\* DoubleArrayBuilder (DAWG -> double-array)
\* ------------------------------------------------------------------------

BLOCK_SIZE == 256
NUM_EXTRA_BLOCKS == 16
NUM_EXTRAS == BLOCK_SIZE * NUM_EXTRA_BLOCKS
\* 0xFF << 21
UPPER_MASK == 255 * Pow2(21)
\* 0xFF
LOWER_MASK == 255

\* DoubleArrayBuilderExtraUnit()
ExtraUnit == [prev |-> 0, next |-> 0, is_fixed |-> FALSE, is_used |-> FALSE]

\* The state of a default-constructed DoubleArrayBuilder.  extras_ is kept
\* empty until build() allocates its NUM_EXTRAS entries.  stack holds the suspended loops of build_double_array, one
\* frame [dawg_child_id, offset] per active call; thrown is the message of an
\* exception in flight.
DoubleArrayBuilder ==
  [units_ |-> <<>>, extras_ |-> <<>>, labels_ |-> <<>>, table_ |-> <<>>,
   extras_head_ |-> 0, stack |-> <<>>, thrown |-> ""]

num_blocks(b) == Len(b.units_) \div BLOCK_SIZE

\* extras_.reset(new extra_type[NUM_EXTRAS])
new_extras == [i \in 0..(NUM_EXTRAS - 1) |-> ExtraUnit]

extras(b, id) == b.extras_[id % NUM_EXTRAS]

\* extras(id) = e
extras_put(b, id, e) == [b EXCEPT !.extras_[id % NUM_EXTRAS] = e]

set_prev(b, id, p) == extras_put(b, id, [extras(b, id) EXCEPT !.prev = p])
set_next(b, id, n) == extras_put(b, id, [extras(b, id) EXCEPT !.next = n])
set_is_fixed(b, id, f) == extras_put(b, id, [extras(b, id) EXCEPT !.is_fixed = f])
set_is_used(b, id, f) == extras_put(b, id, [extras(b, id) EXCEPT !.is_used = f])

\* Loops over a whole block are evaluated by halving the index range: the
\* iterations run in the order of the source, the evaluation is only nested
\* to the logarithm of their number.

RECURSIVE expand_units_reset(_, _, _)
\* for (id = src_num_units; id < dest_num_units; ++id)
\*   { extras(id).set_is_used(false); extras(id).set_is_fixed(false); }
expand_units_reset(b, id, end) ==
  IF id >= end THEN b
  ELSE IF end - id = 1 THEN set_is_fixed(set_is_used(b, id, FALSE), id, FALSE)
  ELSE With(expand_units_reset(b, id, id + ((end - id) \div 2)), LAMBDA done :
         IF done.thrown = ""
           THEN expand_units_reset(done, id + ((end - id) \div 2), end)
           ELSE done)

RECURSIVE expand_units_link(_, _, _)
\* for (i = src_num_units + 1; i < dest_num_units; ++i)
\*   { extras(i - 1).set_next(i); extras(i).set_prev(i - 1); }
expand_units_link(b, i, end) ==
  IF i >= end THEN b
  ELSE IF end - i = 1 THEN set_prev(set_next(b, i - 1, i), i, i - 1)
  ELSE With(expand_units_link(b, i, i + ((end - i) \div 2)), LAMBDA done :
         IF done.thrown = ""
           THEN expand_units_link(done, i + ((end - i) \div 2), end)
           ELSE done)

RECURSIVE reserve_id(_, _)
RECURSIVE expand_units(_)
RECURSIVE fix_block(_, _)
RECURSIVE fix_block_from(_, _, _, _)

\* a faulty reserve_id: extras_head_ is left where it is
reserve_id_head_kept(b0, id) ==
  With(IF id >= Len(b0.units_) THEN expand_units(b0) ELSE b0, LAMBDA b2 :
  With(set_next(b2, extras(b2, id).prev, extras(b2, id).next), LAMBDA b3 :
    set_is_fixed(set_prev(b3, extras(b3, id).next, extras(b3, id).prev),
                 id, TRUE)))

reserve_id(b0, id) ==
  With(IF id >= Len(b0.units_) THEN expand_units(b0) ELSE b0, LAMBDA b1 :
  With([b1 EXCEPT !.extras_head_ =
          IF id = @
            THEN IF extras(b1, id).next = id THEN Len(b1.units_)
                 ELSE extras(b1, id).next
            ELSE @], LAMBDA b2 :
  With(set_next(b2, extras(b2, id).prev, extras(b2, id).next), LAMBDA b3 :
    set_is_fixed(set_prev(b3, extras(b3, id).next, extras(b3, id).prev),
                 id, TRUE))))

expand_units(b0) ==
  LET src_num_units == Len(b0.units_)
      src_num_blocks == num_blocks(b0)
      dest_num_units == src_num_units + BLOCK_SIZE
      dest_num_blocks == src_num_blocks + 1
      b1 == IF dest_num_blocks > NUM_EXTRA_BLOCKS
              THEN fix_block(b0, src_num_blocks - NUM_EXTRA_BLOCKS) ELSE b0
      b2 == [b1 EXCEPT !.units_ = @ \o [i \in 1..BLOCK_SIZE |-> W(0)]]
      b3 == IF dest_num_blocks > NUM_EXTRA_BLOCKS
              THEN expand_units_reset(b2, src_num_units, dest_num_units) ELSE b2
      b4 == expand_units_link(b3, src_num_units + 1, dest_num_units)
      b5 == set_prev(b4, src_num_units, dest_num_units - 1)
  IN  With(set_next(b5, dest_num_units - 1, src_num_units), LAMBDA b6 :
      With(set_prev(b6, src_num_units, extras(b6, b6.extras_head_).prev), LAMBDA b7 :
      With(set_next(b7, dest_num_units - 1, b7.extras_head_), LAMBDA b8 :
      With(set_next(b8, extras(b8, b8.extras_head_).prev, src_num_units), LAMBDA b9 :
        set_prev(b9, b9.extras_head_, dest_num_units - 1)))))

RECURSIVE first_unused(_, _, _)
\* the first loop of fix_block: unused_offset (0 when every slot is used)
first_unused(b, off, end) ==
  IF off = end THEN 0
  ELSE IF ~extras(b, off).is_used THEN off
  ELSE first_unused(b, off + 1, end)

\* the second loop of fix_block
fix_block_from(b, id, end, unused_offset) ==
  IF id >= end THEN b
  ELSE IF end - id = 1
    THEN IF ~extras(b, id).is_fixed
           THEN [reserve_id(b, id) EXCEPT !.units_ =
                   Put(@, id, set_label(At(@, id),
                                        BitXor(id, unused_offset) % 256))]
           ELSE b
  ELSE With(fix_block_from(b, id, id + ((end - id) \div 2), unused_offset),
            LAMBDA done :
              IF done.thrown = ""
                THEN fix_block_from(done, id + ((end - id) \div 2), end,
                                    unused_offset)
                ELSE done)

fix_block(b, block_id) ==
  LET begin == block_id * BLOCK_SIZE
      end == begin + BLOCK_SIZE
  IN  fix_block_from(b, begin, end, first_unused(b, begin, end))

RECURSIVE fix_blocks_from(_, _, _)
fix_blocks_from(b, block_id, end) ==
  IF block_id = end THEN b
  ELSE With(fix_block(b, block_id), LAMBDA done :
         IF done.thrown = "" THEN fix_blocks_from(done, block_id + 1, end)
         ELSE done)

fix_all_blocks(b) ==
  fix_blocks_from(b,
    IF num_blocks(b) > NUM_EXTRA_BLOCKS THEN num_blocks(b) - NUM_EXTRA_BLOCKS ELSE 0,
    num_blocks(b))

RECURSIVE siblings_fixed(_, _, _)
\* for (i = 1; i < labels_.size(); ++i)
\*   if (extras(offset ^ labels_[i]).is_fixed()) return false;
siblings_fixed(b, off, i) ==
  IF i >= Len(b.labels_) THEN FALSE
  ELSE IF extras(b, BitXor(off, At(b.labels_, i))).is_fixed THEN TRUE
  ELSE siblings_fixed(b, off, i + 1)

\* is_valid_offset without the test of the relative offset
is_valid_offset_unmasked(b, id, off) ==
  IF extras(b, off).is_used THEN FALSE
  ELSE ~siblings_fixed(b, off, 1)

is_valid_offset(b, id, off) ==
  IF extras(b, off).is_used THEN FALSE
  ELSE With(BitXor(id, off), LAMBDA rel_offset :
         IF BitAnd(rel_offset, LOWER_MASK) # 0 /\ BitAnd(rel_offset, UPPER_MASK) # 0
           THEN FALSE
         ELSE ~siblings_fixed(b, off, 1))

\* units_.size() | (id & LOWER_MASK): the offset find_valid_offset returns
\* when no slot of the free list fits
fallback_offset(size, id) == BitOr(size, BitAnd(id, LOWER_MASK))

RECURSIVE find_valid_offset_from(_, _, _)
\* the do-while loop of find_valid_offset, at unfixed_id
find_valid_offset_from(b, id, unfixed_id) ==
  With(BitXor(unfixed_id, At(b.labels_, 0)), LAMBDA off :
    IF is_valid_offset(b, id, off) THEN off
    ELSE IF extras(b, unfixed_id).next = b.extras_head_
      THEN fallback_offset(Len(b.units_), id)
    ELSE find_valid_offset_from(b, id, extras(b, unfixed_id).next))

find_valid_offset(b, id) ==
  IF b.extras_head_ >= Len(b.units_)
    THEN fallback_offset(Len(b.units_), id)
    ELSE find_valid_offset_from(b, id, b.extras_head_)

RECURSIVE child_labels(_, _)
\* the labels of the sibling group starting at dawg_child_id
child_labels(dawg, dawg_child_id) ==
  IF dawg_child_id = 0 THEN <<>>
  ELSE <<Dawg_label(dawg, dawg_child_id)>>
         \o child_labels(dawg, Dawg_sibling(dawg, dawg_child_id))

\* a faulty loop body of arrange_children: the label of a child that is not
\* a leaf is not written
arrange_child_label_unset(b, dawg, dic_id, dic_child_id, child_label, dawg_child_id) ==
  IF Dawg_is_leaf(dawg, dawg_child_id)
    THEN [b EXCEPT !.units_ =
            Put(Put(@, dic_id, set_has_leaf(At(@, dic_id), TRUE)),
                dic_child_id,
                set_value(At(@, dic_child_id), Dawg_value(dawg, dawg_child_id)))]
    ELSE b

\* the body of the for loop of arrange_children, once dic_child_id is reserved
arrange_child(b, dawg, dic_id, dic_child_id, child_label, dawg_child_id) ==
  IF Dawg_is_leaf(dawg, dawg_child_id)
    THEN [b EXCEPT !.units_ =
            Put(Put(@, dic_id, set_has_leaf(At(@, dic_id), TRUE)),
                dic_child_id,
                set_value(At(@, dic_child_id), Dawg_value(dawg, dawg_child_id)))]
    ELSE [b EXCEPT !.units_ =
            Put(@, dic_child_id, set_label(At(@, dic_child_id), child_label))]

RECURSIVE arrange_children_from(_, _, _, _, _, _)
\* the for loop of arrange_children, at index i and DAWG unit dawg_child_id
arrange_children_from(b, dawg, dic_id, off, i, dawg_child_id) ==
  IF i >= Len(b.labels_) THEN b
  ELSE
    With(BitXor(off, At(b.labels_, i)), LAMBDA dic_child_id :
      arrange_children_from(
        arrange_child(reserve_id(b, dic_child_id), dawg, dic_id, dic_child_id,
                      At(b.labels_, i), dawg_child_id),
        dawg, dic_id, off, i + 1, Dawg_sibling(dawg, dawg_child_id)))

\* a faulty arrange_children: is_used is set on the slot of the first child
\* instead of the offset
arrange_children_marks_child(b, dawg, dawg_id, dic_id) ==
  With([b EXCEPT !.labels_ = child_labels(dawg, Dawg_child(dawg, dawg_id))],
       LAMBDA b1 :
  With(find_valid_offset(b1, dic_id), LAMBDA off :
    IF offset_too_large(BitXor(dic_id, off))
      THEN <<[b1 EXCEPT !.thrown = "failed to modify unit: too large offset"], off>>
    ELSE
      <<set_is_used(
          arrange_children_from(
            [b1 EXCEPT !.units_ =
               Put(@, dic_id, set_offset(At(@, dic_id), BitXor(dic_id, off)))],
            dawg, dic_id, off, 0, Dawg_child(dawg, dawg_id)),
          BitXor(off, At(b1.labels_, 0)), TRUE),
        off>>))

\* <<builder, offset>>; the builder has thrown set when set_offset throws
arrange_children(b, dawg, dawg_id, dic_id) ==
  With([b EXCEPT !.labels_ = child_labels(dawg, Dawg_child(dawg, dawg_id))],
       LAMBDA b1 :
  With(find_valid_offset(b1, dic_id), LAMBDA off :
    IF offset_too_large(BitXor(dic_id, off))
      THEN <<[b1 EXCEPT !.thrown = "failed to modify unit: too large offset"], off>>
    ELSE
      <<set_is_used(
          arrange_children_from(
            [b1 EXCEPT !.units_ =
               Put(@, dic_id, set_offset(At(@, dic_id), BitXor(dic_id, off)))],
            dawg, dic_id, off, 0, Dawg_child(dawg, dawg_id)),
          off, TRUE),
        off>>))

\* build_double_array when the children of dawg_id are already placed at
\* offset: the unit of dic_id is pointed at them
build_double_array_shared(b, dawg, dawg_child_id, dic_id, off) ==
  With(IF Dawg_is_leaf(dawg, dawg_child_id)
         THEN [b EXCEPT !.units_ =
                 Put(@, dic_id, set_has_leaf(At(@, dic_id), TRUE))]
         ELSE b, LAMBDA b1 :
    IF offset_too_large(off)
      THEN [b1 EXCEPT !.thrown = "failed to modify unit: too large offset"]
      ELSE [b1 EXCEPT !.units_ = Put(@, dic_id, set_offset(At(@, dic_id), off))])

\* build_double_array when the children of dawg_id have to be arranged
build_double_array_arrange(b, dawg, dawg_id, dic_id, dawg_child_id, shared, intersection_id) ==
  With(arrange_children(b, dawg, dawg_id, dic_id), LAMBDA a :
    IF a[1].thrown # "" THEN a[1]
    ELSE IF a[2] = 0 THEN [a[1] EXCEPT !.stack = <<>>]
    ELSE [a[1] EXCEPT
            !.table_ = IF shared THEN Put(@, intersection_id, a[2]) ELSE @,
            !.stack = Append(@, [dawg_child_id |-> dawg_child_id,
                                 offset |-> a[2]])])

\* !(offset & UPPER_MASK) || !(offset & LOWER_MASK) in build_double_array,
\* offset being the relative offset to the children laid out earlier
reusable_offset(rel) == BitAnd(rel, UPPER_MASK) = 0 \/ BitAnd(rel, LOWER_MASK) = 0

\* One call of build_double_array(dawg, dawg_id, dic_id) up to its do-while
\* loop: the loop is left on the stack as the frame [dawg_child_id, offset].
\* A call that returns false (arrange_children gave offset 0) unwinds every
\* suspended call.
build_double_array(b, dawg, dawg_id, dic_id) ==
  IF Dawg_is_leaf(dawg, dawg_id) THEN b
  ELSE
    With(Dawg_child(dawg, dawg_id), LAMBDA dawg_child_id :
    With(Dawg_is_intersection(dawg, dawg_child_id), LAMBDA shared :
    With(Dawg_intersection_id(dawg, dawg_child_id), LAMBDA intersection_id :
    With(BitXor(At(b.table_, intersection_id), dic_id), LAMBDA reuse :
      IF shared /\ At(b.table_, intersection_id) # 0
         /\ reusable_offset(reuse)
        THEN build_double_array_shared(b, dawg, dawg_child_id, dic_id, reuse)
        ELSE build_double_array_arrange(b, dawg, dawg_id, dic_id, dawg_child_id,
                                        shared, intersection_id)))))

\* The next iteration of the innermost suspended do-while loop:
\*   dic_child_id = offset ^ dawg.label(dawg_child_id);
\*   build_double_array(dawg, dawg_child_id, dic_child_id);
\*   dawg_child_id = dawg.sibling(dawg_child_id);  while (dawg_child_id != 0)
build_double_array_next(b, dawg) ==
  With(Top(b.stack), LAMBDA frame :
  With(Dawg_sibling(dawg, frame.dawg_child_id), LAMBDA sibling :
    build_double_array(
      [b EXCEPT !.stack = IF sibling = 0 THEN Pop(@)
                          ELSE Append(Pop(@), [frame EXCEPT !.dawg_child_id = sibling])],
      dawg, frame.dawg_child_id,
      BitXor(frame.offset, Dawg_label(dawg, frame.dawg_child_id)))))

\* DoubleArrayBuilder::build up to and including the call
\* build_double_array(dawg, dawg.root(), 0)
DoubleArrayBuilder_build_begin(b, dawg) ==
  With(set_is_used(
         reserve_id([b EXCEPT !.table_ = [i \in 1..Dawg_num_intersections(dawg) |-> 0],
                              !.extras_ = new_extras], 0),
         0, TRUE), LAMBDA b2 :
  With([b2 EXCEPT !.units_ = Put(@, 0, set_label(set_offset(At(@, 0), 1), 0))],
       LAMBDA b3 :
    IF Dawg_child(dawg, 0) # 0 THEN build_double_array(b3, dawg, 0, 0) ELSE b3))

\* the rest of DoubleArrayBuilder::build, once build_double_array returned
DoubleArrayBuilder_build_end(b) ==
  [fix_all_blocks(b) EXCEPT !.extras_ = <<>>, !.labels_ = <<>>, !.table_ = <<>>]

\* DoubleArrayBuilder::copy: <<size, the new buffer's units>>
copy(b) == <<Len(b.units_), b.units_>>

\* ------------------------------------------------------------------------
\* DoubleArrayImpl: the queries.  array is the unit array array_ points to;
\* key is the caller's buffer, the key's bytes followed by '\0'; length = 0
\* asks for the NUL-terminated scan.
\* ------------------------------------------------------------------------

RECURSIVE strlen_from(_, _)
\* while (keys[i][length] != '\0') ++length;
strlen_from(key, length) ==
  IF At(key, length) = 0 THEN length ELSE strlen_from(key, length + 1)

\* the loop condition shared by the two loops of each query
more_bytes(key, length, i) ==
  IF length # 0 THEN i < length ELSE At(key, i) # 0

RECURSIVE exactMatchSearch_loop(_, _, _, _, _, _)
\* [found |-> no label mismatch, node_pos, unit, length |-> bytes consumed]
exactMatchSearch_loop(array, key, length, i, node_pos, unit) ==
  IF ~more_bytes(key, length, i)
    THEN [found |-> TRUE, node_pos |-> node_pos, unit |-> unit, length |-> i]
  ELSE
    With(BitXor(node_pos, BitXor(offset(unit), At(key, i))), LAMBDA next_pos :
    With(At(array, next_pos), LAMBDA next_unit :
      IF label(next_unit) # W(At(key, i))
        THEN [found |-> FALSE, node_pos |-> next_pos, unit |-> next_unit,
              length |-> i]
      ELSE exactMatchSearch_loop(array, key, length, i + 1, next_pos, next_unit)))

\* a faulty exactMatchSearch: has_leaf() is not tested
exactMatchSearch_no_leaf_test(array, key, length, node_pos) ==
  With(exactMatchSearch_loop(array, key, length, 0, node_pos, At(array, node_pos)),
       LAMBDA w :
    IF ~w.found THEN <<-1, 0>>
    ELSE <<value(At(array, BitXor(w.node_pos, offset(w.unit)))), w.length>>)

\* the result_pair_type result <<value, length>>; the bare value_type result
\* is its first component
exactMatchSearch(array, key, length, node_pos) ==
  With(exactMatchSearch_loop(array, key, length, 0, node_pos, At(array, node_pos)),
       LAMBDA w :
    IF ~w.found THEN <<-1, 0>>
    ELSE IF ~has_leaf(w.unit) THEN <<-1, 0>>
    ELSE <<value(At(array, BitXor(w.node_pos, offset(w.unit)))), w.length>>)

\* a results[] entry that was never written
Unwritten == "unwritten"

RECURSIVE commonPrefixSearch_loop_capped(_, _, _, _, _, _, _)
\* a faulty loop of commonPrefixSearch: a match that finds results[] full is
\* not counted
commonPrefixSearch_loop_capped(array, key, results, max_num_results, length, i, st) ==
  IF ~more_bytes(key, length, i) THEN <<st.num_results, results>>
  ELSE
    With(BitXor(st.node_pos, At(key, i)), LAMBDA pos :
    With(At(array, pos), LAMBDA unit :
    With(BitXor(pos, offset(unit)), LAMBDA pos2 :
      IF label(unit) # W(At(key, i)) THEN <<st.num_results, results>>
      ELSE IF has_leaf(unit) /\ st.num_results < max_num_results
        THEN commonPrefixSearch_loop_capped(array, key,
               Put(results, st.num_results, <<value(At(array, pos2)), i + 1>>),
               max_num_results, length, i + 1,
               [node_pos |-> pos2, num_results |-> st.num_results + 1])
      ELSE commonPrefixSearch_loop_capped(array, key, results, max_num_results,
               length, i + 1,
               [node_pos |-> pos2, num_results |-> st.num_results]))))

RECURSIVE commonPrefixSearch_loop(_, _, _, _, _, _, _)
\* <<num_results, results>>; node_pos already has the unit's offset applied
commonPrefixSearch_loop(array, key, results, max_num_results, length, i, st) ==
  IF ~more_bytes(key, length, i) THEN <<st.num_results, results>>
  ELSE
    With(BitXor(st.node_pos, At(key, i)), LAMBDA pos :
    With(At(array, pos), LAMBDA unit :
    With(BitXor(pos, offset(unit)), LAMBDA pos2 :
      IF label(unit) # W(At(key, i)) THEN <<st.num_results, results>>
      ELSE IF has_leaf(unit)
        THEN commonPrefixSearch_loop(array, key,
               IF st.num_results < max_num_results
                 THEN Put(results, st.num_results,
                          <<value(At(array, pos2)), i + 1>>)
                 ELSE results,
               max_num_results, length, i + 1,
               [node_pos |-> pos2, num_results |-> st.num_results + 1])
      ELSE commonPrefixSearch_loop(array, key, results, max_num_results,
               length, i + 1,
               [node_pos |-> pos2, num_results |-> st.num_results]))))

commonPrefixSearch(array, key, results, max_num_results, length, node_pos) ==
  commonPrefixSearch_loop(array, key, results, max_num_results, length, 0,
    [node_pos |-> BitXor(node_pos, offset(At(array, node_pos))),
     num_results |-> 0])

RECURSIVE traverse_loop(_, _, _, _, _, _, _)
\* [ret |-> -2 on a mismatch else 0, id, unit, node_pos, key_pos]
traverse_loop(array, key, length, id, unit, node_pos, key_pos) ==
  IF ~more_bytes(key, length, key_pos)
    THEN [ret |-> 0, id |-> id, unit |-> unit, node_pos |-> node_pos,
          key_pos |-> key_pos]
  ELSE
    With(BitXor(id, BitXor(offset(unit), At(key, key_pos))), LAMBDA next_id :
    With(At(array, next_id), LAMBDA next_unit :
      IF label(next_unit) # W(At(key, key_pos))
        THEN [ret |-> -2, id |-> next_id, unit |-> next_unit,
              node_pos |-> node_pos, key_pos |-> key_pos]
      ELSE traverse_loop(array, key, length, next_id, next_unit, next_id,
                         key_pos + 1)))

\* a faulty traverse: node_pos is written back on a mismatch too, as the
\* position of the unit whose label did not match
traverse_moves_on_mismatch(array, key, node_pos, key_pos, length) ==
  With(traverse_loop(array, key, length, node_pos, At(array, node_pos),
                     node_pos, key_pos), LAMBDA w :
    [ret |-> IF w.ret = -2 THEN -2
             ELSE IF ~has_leaf(w.unit) THEN -1
             ELSE value(At(array, BitXor(w.id, offset(w.unit)))),
     node_pos |-> w.id, key_pos |-> w.key_pos])

\* [ret, node_pos, key_pos]: the value returned and the updated references
traverse(array, key, node_pos, key_pos, length) ==
  With(traverse_loop(array, key, length, node_pos, At(array, node_pos),
                     node_pos, key_pos), LAMBDA w :
    [ret |-> IF w.ret = -2 THEN -2
             ELSE IF ~has_leaf(w.unit) THEN -1
             ELSE value(At(array, BitXor(w.id, offset(w.unit)))),
     node_pos |-> w.node_pos, key_pos |-> w.key_pos])

\* ------------------------------------------------------------------------
\* The state machine: one DoubleArrayImpl object, its build() calls and the
\* queries made on the image it holds.
\* ------------------------------------------------------------------------

\* the bytes keys and queries are made of (no key holds a 0x00 byte)
KeyBytes == {97, 98}
QueryBytes == KeyBytes
\* values[i] when build() is given a values array; without one the value of
\* key i is i
ValueChoices == {-1, 2147483647}
\* what the progress callback may return
CallbackReturns == {0, 1}

MaxQueryLen == MaxLen + 1

RECURSIVE Strings(_, _)
\* the byte strings over bytes of length 0 .. n
Strings(bytes, n) ==
  IF n = 0 THEN {<<>>}
  ELSE LET shorter == Strings(bytes, n - 1)
       IN  shorter \cup {Append(q, c) : q \in shorter, c \in bytes}

Keys == Strings(KeyBytes, MaxLen)
Queries == Strings(QueryBytes, MaxQueryLen)

\* the buffer a byte string is passed in: its bytes and the terminating '\0'
CString(q) == Append(q, 0)

\* the argument combinations of build(): lengths/values given or NULL,
\* progress_func given or NULL
BuildArgs ==
  {[lengths |-> FALSE, values |-> FALSE, progress_func |-> TRUE],
   [lengths |-> TRUE, values |-> TRUE, progress_func |-> FALSE]}

NULL == 0

VARIABLES
  size_,                 \* DoubleArrayImpl::size_
  array_,                \* DoubleArrayImpl::array_: a buffer of heap, or NULL
  buf_,                  \* DoubleArrayImpl::buf_: the owned buffer, or NULL
  heap,                  \* the unit buffers allocated with new[]: [units, freed]
  pc,                    \* where the running build() call is; "idle" if none
  call,                  \* arguments and locals of the running build() call
  dawg_builder,          \* the local Details::DawgBuilder of build()
  double_array_builder,  \* the local Details::DoubleArrayBuilder of build()
  calls,                 \* the progress_func invocations of the last build()
  old,                   \* the reader as it was when the last build() began
  built,                 \* the keys of the build() that made the held image
  last,                  \* the last finished call and what it returned
  budget                 \* the keys handed to build() calls so far

vars ==
  <<size_, array_, buf_, heap, pc, call, dawg_builder, double_array_builder,
    calls, old, built, last, budget>>

reader == <<size_, array_, buf_, heap>>

NoCall == [num_keys |-> 0, args |-> [lengths |-> FALSE, values |-> FALSE,
                                     progress_func |-> FALSE],
           i |-> 0, keys |-> <<>>]

NoSnapshot == [size_ |-> 0, array_ |-> NULL, buf_ |-> NULL, heap |-> <<>>]

\* DoubleArrayImpl() : size_(0), array_(NULL), buf_(NULL)
Init ==
  /\ size_ = 0
  /\ array_ = NULL
  /\ buf_ = NULL
  /\ heap = <<>>
  /\ pc = "idle"
  /\ call = NoCall
  /\ dawg_builder = DawgBuilder
  /\ double_array_builder = DoubleArrayBuilder
  /\ calls = <<>>
  /\ old = NoSnapshot
  /\ built = <<>>
  /\ last = [op |-> "DoubleArrayImpl"]
  /\ budget = 0

\* the units array_ points to
Image == heap[array_].units

\* build() is left by an exception: its locals are destroyed
Throw(msg, keys) ==
  /\ pc' = "idle"
  /\ call' = NoCall
  /\ dawg_builder' = DawgBuilder
  /\ double_array_builder' = DoubleArrayBuilder
  /\ last' = [op |-> "build", thrown |-> msg, keys |-> keys]

\* return 0
Return(keys) ==
  /\ pc' = "idle"
  /\ call' = NoCall
  /\ dawg_builder' = DawgBuilder
  /\ double_array_builder' = DoubleArrayBuilder
  /\ old' = NoSnapshot
  /\ last' = [op |-> "build", thrown |-> "", ret |-> 0, keys |-> keys,
              progress_func |-> call.args.progress_func]

\* build(num_keys, keys, lengths, values, progress_func) is entered:
\* dawg_builder.init().  A query leaves the object as it found it, so the
\* calls of build() start from the states a constructor or a build() left.
BuildStart ==
  /\ pc = "idle"
  /\ last.op \in {"DoubleArrayImpl", "build"}
  /\ \E num_keys \in 0..(MaxKeys - budget), args \in BuildArgs :
       /\ call' = [num_keys |-> num_keys, args |-> args, i |-> 0, keys |-> <<>>]
       /\ budget' = budget + num_keys
       /\ pc' = IF num_keys = 0 THEN "finish" ELSE "insert"
  /\ dawg_builder' = init(DawgBuilder)
  /\ calls' = <<>>
  /\ old' = [size_ |-> size_, array_ |-> array_, buf_ |-> buf_, heap |-> heap]
  /\ last' = [op |-> "build", thrown |-> "", running |-> TRUE]
  /\ UNCHANGED <<size_, array_, buf_, heap, double_array_builder, built>>

\* where build() goes after the callback for key i returned r: the return
\* value is not looked at
key_loop_next(c) ==
  IF c.i < c.num_keys THEN "insert" ELSE "finish"

\* a faulty build: a callback that returns non-zero ends the key loop
cancel_on_nonzero(c, r) == IF r # 0 THEN "finish" ELSE key_loop_next(c)

after_progress_func(c, r) == key_loop_next(c)

\* one iteration of the key loop up to the callback: the length is taken from
\* lengths[i] or counted, the value from values[i] or i, and the key inserted
InsertKey ==
  /\ pc = "insert"
  /\ \E key \in Keys,
        v \in (IF call.args.values THEN ValueChoices ELSE {call.i}) :
     \E length \in {IF call.args.lengths THEN Len(key)
                    ELSE strlen_from(CString(key), 0)} :
     \E r \in {insert(dawg_builder, key, length, v)},
        keys \in {Append(call.keys, [key |-> key, length |-> length, value |-> v])} :
       IF r.err # ""
         THEN /\ Throw(r.err, keys)
              /\ UNCHANGED <<calls, old>>
         ELSE /\ dawg_builder' = r.d
              /\ call' = [call EXCEPT !.i = @ + 1, !.keys = keys]
              /\ pc' = IF call.args.progress_func THEN "progress"
                       ELSE key_loop_next(call')
              /\ UNCHANGED <<double_array_builder, calls, old, last>>
  /\ UNCHANGED <<size_, array_, buf_, heap, built, budget>>

\* progress_func(i + 1, num_keys + 1) inside the key loop
Progress ==
  /\ pc = "progress"
  /\ \E r \in CallbackReturns :
       /\ calls' = Append(calls, <<call.i, call.num_keys + 1>>)
       /\ pc' = after_progress_func(call, r)
  /\ UNCHANGED <<size_, array_, buf_, heap, call, dawg_builder,
                 double_array_builder, old, built, last, budget>>

\* dawg_builder.finish()
Finish ==
  /\ pc = "finish"
  /\ dawg_builder' = finish(dawg_builder)
  /\ pc' = "build"
  /\ UNCHANGED <<size_, array_, buf_, heap, call, double_array_builder, calls,
                 old, built, last, budget>>

\* double_array_builder.build(dawg_builder) up to its first call of
\* build_double_array
BuildBegin ==
  /\ pc = "build"
  /\ \E b \in {DoubleArrayBuilder_build_begin(DoubleArrayBuilder, dawg_builder)} :
       IF b.thrown # ""
         THEN /\ Throw(b.thrown, call.keys)
              /\ UNCHANGED <<calls, old>>
         ELSE /\ double_array_builder' = b
              /\ pc' = "place"
              /\ UNCHANGED <<call, dawg_builder, calls, old, last>>
  /\ UNCHANGED <<size_, array_, buf_, heap, built, budget>>

\* the next recursive call of build_double_array
Place ==
  /\ pc = "place"
  /\ double_array_builder.stack # <<>>
  /\ \E b \in {build_double_array_next(double_array_builder, dawg_builder)} :
       IF b.thrown # ""
         THEN /\ Throw(b.thrown, call.keys)
              /\ UNCHANGED <<calls, old>>
         ELSE /\ double_array_builder' = b
              /\ UNCHANGED <<pc, call, dawg_builder, calls, old, last>>
  /\ UNCHANGED <<size_, array_, buf_, heap, built, budget>>

\* build_double_array(dawg, dawg.root(), 0) has returned: fix_all_blocks()
\* and the clears that end DoubleArrayBuilder::build
BuildEnd ==
  /\ pc = "place"
  /\ double_array_builder.stack = <<>>
  /\ double_array_builder' = DoubleArrayBuilder_build_end(double_array_builder)
  /\ pc' = "install"
  /\ UNCHANGED <<size_, array_, buf_, heap, call, dawg_builder, calls, old,
                 built, last, budget>>

RECURSIVE heap_trim(_)
\* the heap ends at its last buffer in use
heap_trim(h) ==
  IF h # <<>> /\ h[Len(h)].freed THEN heap_trim(SubSeq(h, 1, Len(h) - 1)) ELSE h

\* delete[] of buffer i
delete(h, i) == heap_trim([h EXCEPT ![i] = [units |-> <<>>, freed |-> TRUE]])

\* DoubleArrayImpl::clear on the fields <<size_, array_, buf_, heap>>
clear(r) ==
  <<0, NULL, NULL, IF r[3] # NULL THEN delete(r[4], r[3]) ELSE r[4]>>

\* new[] returns a buffer that is not in use: the first freed one, or a
\* fresh one
new_buffer(h) ==
  IF \E i \in 1..Len(h) : h[i].freed
    THEN CHOOSE i \in 1..Len(h) : h[i].freed /\ \A j \in 1..(i - 1) : ~h[j].freed
    ELSE Len(h) + 1

heap_put(h, i, buffer) ==
  IF i > Len(h) THEN Append(h, buffer) ELSE [h EXCEPT ![i] = buffer]

\* dawg_builder.clear(); double_array_builder.copy(&size, &buf); clear();
\* size_ = size; array_ = buf; buf_ = buf; and, without a callback, return 0
Install ==
  /\ pc = "install"
  /\ \E c \in {copy(double_array_builder)}, buf \in {new_buffer(heap)} :
       /\ heap' = clear(<<size_, array_, buf_,
                          heap_put(heap, buf, [units |-> c[2], freed |-> FALSE])>>)[4]
       /\ size_' = c[1]
       /\ array_' = buf
       /\ buf_' = buf
  /\ built' = call.keys
  /\ IF call.args.progress_func
       THEN /\ pc' = "progress_final"
            /\ dawg_builder' = DawgBuilder_clear(dawg_builder)
            /\ UNCHANGED <<call, double_array_builder, old, last>>
       ELSE Return(call.keys)
  /\ UNCHANGED <<calls, budget>>

\* progress_func(num_keys + 1, num_keys + 1); return 0
ProgressFinal ==
  /\ pc = "progress_final"
  /\ \E r \in CallbackReturns :
       /\ calls' = Append(calls, <<call.num_keys + 1, call.num_keys + 1>>)
       /\ Return(call.keys)
  /\ UNCHANGED <<size_, array_, buf_, heap, built, budget>>

\* the largest max_num_results a caller passes, and the size of its results[]
MaxResults == MaxLen
ResultCap == MaxQueryLen

\* A query changes nothing in the reader, so one query (and, for traverse,
\* one continuation) is made on the image each successful build() installs.
CanQuery == pc = "idle" /\ array_ # NULL /\ last.op = "build" /\ last.thrown = ""

\* the length argument: the key's length, or 0 for the NUL-terminated scan
LengthArgs(q) == {Len(q), 0}

\* exactMatchSearch<result_pair_type>(key, length, 0)
ExactMatchSearch ==
  /\ CanQuery
  /\ \E q \in Queries : \E length \in LengthArgs(q) :
       last' = [op |-> "exactMatchSearch", key |-> q,
                result |-> exactMatchSearch(Image, CString(q), length, 0)]
  /\ UNCHANGED <<size_, array_, buf_, heap, pc, call, dawg_builder,
                 double_array_builder, calls, old, built, budget>>

\* commonPrefixSearch(key, results, max_num_results, length, 0)
CommonPrefixSearch ==
  /\ CanQuery
  /\ \E q \in Queries : \E length \in LengthArgs(q) :
     \E max_num_results \in 0..MaxResults :
     \E r \in {commonPrefixSearch(Image, CString(q),
                                  [i \in 1..ResultCap |-> Unwritten],
                                  max_num_results, length, 0)} :
       last' = [op |-> "commonPrefixSearch", key |-> q,
                max_num_results |-> max_num_results,
                num_results |-> r[1], results |-> r[2]]
  /\ UNCHANGED <<size_, array_, buf_, heap, pc, call, dawg_builder,
                 double_array_builder, calls, old, built, budget>>

\* node_pos = 0; key_pos = 0; traverse(key, node_pos, key_pos, length)
Traverse ==
  /\ CanQuery
  /\ \E q \in Queries : \E length \in LengthArgs(q) :
     \E r \in {traverse(Image, CString(q), 0, 0, length)} :
       last' = [op |-> "traverse", key |-> q,
                ret |-> r.ret, node_pos |-> r.node_pos,
                key_pos |-> r.key_pos, first |-> <<>>]
  /\ UNCHANGED <<size_, array_, buf_, heap, pc, call, dawg_builder,
                 double_array_builder, calls, old, built, budget>>

IsPrefix(p, q) == Len(p) <= Len(q) /\ SubSeq(q, 1, Len(p)) = p

\* traverse(key, node_pos, key_pos, length) again, with the references the
\* first call left and a key that extends the first call's key
TraverseOn ==
  /\ pc = "idle"
  /\ array_ # NULL
  /\ last.op = "traverse"
  /\ last.first = <<>>
  /\ \E q \in Queries : \E length \in LengthArgs(q) :
       /\ IsPrefix(last.key, q)
       /\ \E r \in {traverse(Image, CString(q), last.node_pos, last.key_pos, length)} :
            last' = [op |-> "traverse", key |-> q,
                     ret |-> r.ret, node_pos |-> r.node_pos,
                     key_pos |-> r.key_pos,
                     first |-> <<[key |-> last.key, ret |-> last.ret]>>]
  /\ UNCHANGED <<size_, array_, buf_, heap, pc, call, dawg_builder,
                 double_array_builder, calls, old, built, budget>>

Next ==
  \/ BuildStart
  \/ InsertKey
  \/ Progress
  \/ Finish
  \/ BuildBegin
  \/ Place
  \/ BuildEnd
  \/ Install
  \/ ProgressFinal
  \/ ExactMatchSearch
  \/ CommonPrefixSearch
  \/ Traverse
  \/ TraverseOn

Spec == Init /\ [][Next]_vars

\* ------------------------------------------------------------------------
\* The unit functions a value passes through, applied one after the other:
\* DawgNode::unit, DawgUnit::value, DoubleArrayBuilderUnit::set_value,
\* DoubleArrayUnit::value and label.
\* ------------------------------------------------------------------------

\* 0, 2^31 - 1, and every power of two below 2^31 with its two neighbours
SampleValues ==
  {0, 2147483647} \cup
  {v \in {Pow2(b) + e : b \in 0..30, e \in {-1, 0, 1}} : v >= 0}

\* a node with label '\0' on which set_value(v) was called
InitValue ==
  /\ size_ = 0
  /\ array_ = NULL
  /\ buf_ = NULL
  /\ heap = <<>>
  /\ pc = "DawgNode::unit"
  /\ call = NoCall
  /\ dawg_builder = DawgBuilder
  /\ double_array_builder = DoubleArrayBuilder
  /\ calls = <<>>
  /\ old = NoSnapshot
  /\ built = <<>>
  /\ budget = 0
  /\ \E v \in SampleValues, s \in BOOLEAN :
       last = [op |-> "DawgNode::set_value", v |-> v,
               node |-> [DawgNode EXCEPT !.child = v, !.has_sibling = s]]

\* units_[unit_id] = nodes_[i].unit() in flush
NodeUnit ==
  /\ pc = "DawgNode::unit"
  /\ last' = [op |-> "DawgNode::unit", v |-> last.v,
              unit |-> DawgNode_unit(last.node)]
  /\ pc' = "DawgUnit::value"
  /\ UNCHANGED <<size_, array_, buf_, heap, call, dawg_builder,
                 double_array_builder, calls, old, built, budget>>

\* dawg.value(dawg_child_id) in arrange_children
UnitValue ==
  /\ pc = "DawgUnit::value"
  /\ last' = [op |-> "DawgUnit::value", v |-> last.v,
              value |-> DawgUnit_value(last.unit)]
  /\ pc' = "set_value"
  /\ UNCHANGED <<size_, array_, buf_, heap, call, dawg_builder,
                 double_array_builder, calls, old, built, budget>>

\* units_[dic_child_id].set_value(...) in arrange_children, on the unit
\* reserve_id left
SetValue ==
  /\ pc = "set_value"
  /\ last' = [op |-> "set_value", v |-> last.v,
              unit |-> set_value(W(0), last.value)]
  /\ pc' = "value"
  /\ UNCHANGED <<size_, array_, buf_, heap, call, dawg_builder,
                 double_array_builder, calls, old, built, budget>>

\* unit.value() and unit.label() in the reader
ReadValue ==
  /\ pc = "value"
  /\ last' = [op |-> "value", v |-> last.v, value |-> value(last.unit),
              label |-> label(last.unit)]
  /\ pc' = "read"
  /\ UNCHANGED <<size_, array_, buf_, heap, call, dawg_builder,
                 double_array_builder, calls, old, built, budget>>

NextValue ==
  \/ NodeUnit
  \/ UnitValue
  \/ SetValue
  \/ ReadValue

SpecValue == InitValue /\ [][NextValue]_vars

\* ------------------------------------------------------------------------
\* The free list of a DoubleArrayBuilder on its own: reserve_id on slots its
\* callers pass (a slot of the free list, taken from either end or after the
\* head), expand_units, and the loop of fix_all_blocks, one fix_block per
\* step.  MaxBlocks is one more than
\* NUM_EXTRA_BLOCKS, so that the window of extras wraps around and
\* expand_units freezes the oldest block.
\* ------------------------------------------------------------------------
MaxBlocks == 17

\* reserve_id calls on slots inside units_ per behaviour
MaxReserves == 1

\* a DoubleArrayBuilder as build() sets it up: extras_.reset(new extra_type[NUM_EXTRAS])
InitFreeList ==
  /\ size_ = 0
  /\ array_ = NULL
  /\ buf_ = NULL
  /\ heap = <<>>
  /\ pc = "reserve_id"
  /\ call = NoCall
  /\ dawg_builder = DawgBuilder
  /\ double_array_builder = [DoubleArrayBuilder EXCEPT !.extras_ = new_extras]
  /\ calls = <<>>
  /\ old = NoSnapshot
  /\ built = <<>>
  /\ budget = 0
  /\ last = [op |-> "DoubleArrayBuilder"]

\* expand_units(), as reserve_id calls it for an id beyond units_
ExpandUnits ==
  /\ pc = "reserve_id"
  /\ num_blocks(double_array_builder) < MaxBlocks
  /\ double_array_builder' = expand_units(double_array_builder)
  /\ last' = [op |-> "expand_units"]
  /\ UNCHANGED <<size_, array_, buf_, heap, pc, call, dawg_builder, calls, old,
                 built, budget>>

\* the numbers of blocks units_ holds when the callers act (a slot of the
\* free list is reserved, or the build comes to fix_all_blocks): one block,
\* a full window, and a window that has wrapped around
ActAt == {1, NUM_EXTRA_BLOCKS, MaxBlocks}

\* reserve_id(id) for a slot of the free list: its head, the slot after the
\* head or its last slot
ReserveId ==
  /\ pc = "reserve_id"
  /\ budget < MaxReserves
  /\ num_blocks(double_array_builder) \in ActAt
  /\ double_array_builder.extras_head_ < Len(double_array_builder.units_)
  /\ \E id \in {double_array_builder.extras_head_,
                extras(double_array_builder,
                       double_array_builder.extras_head_).next,
                extras(double_array_builder,
                       double_array_builder.extras_head_).prev} :
       /\ double_array_builder' = reserve_id(double_array_builder, id)
       /\ last' = [op |-> "reserve_id", id |-> id]
  /\ budget' = budget + 1
  /\ UNCHANGED <<size_, array_, buf_, heap, pc, call, dawg_builder, calls, old,
                 built>>

\* fix_all_blocks() is entered: begin and end of its loop
FixAllBlocks ==
  /\ pc = "reserve_id"
  /\ num_blocks(double_array_builder) \in ActAt
  /\ pc' = "fix_block"
  /\ last' = [op |-> "fix_all_blocks",
              block_id |-> IF num_blocks(double_array_builder) > NUM_EXTRA_BLOCKS
                             THEN num_blocks(double_array_builder) - NUM_EXTRA_BLOCKS
                             ELSE 0,
              end |-> num_blocks(double_array_builder)]
  /\ UNCHANGED <<size_, array_, buf_, heap, call, dawg_builder,
                 double_array_builder, calls, old, built, budget>>

\* one iteration of the loop of fix_all_blocks: fix_block(block_id)
FixBlock ==
  /\ pc = "fix_block"
  /\ last.block_id # last.end
  /\ double_array_builder' = fix_block(double_array_builder, last.block_id)
  /\ last' = [op |-> "fix_block", block_id |-> last.block_id + 1,
              end |-> last.end]
  /\ UNCHANGED <<size_, array_, buf_, heap, pc, call, dawg_builder, calls, old,
                 built, budget>>

NextFreeList ==
  \/ ExpandUnits
  \/ ReserveId
  \/ FixAllBlocks
  \/ FixBlock

SpecFreeList == InitFreeList /\ [][NextFreeList]_vars

\* the builds of a DoubleArrayImpl and the free list on its own, side by side
SpecBuilder == (Init \/ InitFreeList) /\ [][Next \/ NextFreeList]_vars

\* ------------------------------------------------------------------------
\* build() on a key array long enough for DawgBuilder::expand_table to run:
\* keys of three bytes, each byte one of TableGroup labels, in sorted order.
\* The first TableFresh keys carry their index as value, so that every key
\* adds a terminal group of its own; the keys after them may repeat the
\* values of the first keys, so that their groups equal groups that were
\* registered before the table was expanded.
\* ------------------------------------------------------------------------

\* labels a byte of a key is taken from
TableGroup == 10

\* keys with a value no other key has
TableFresh == 800

\* keys in the array
TableKeys == TableFresh + TableGroup

\* keys[i]
TableKey(i) ==
  <<1 + (i \div (TableGroup * TableGroup)),
    1 + ((i \div TableGroup) % TableGroup),
    1 + (i % TableGroup)>>

\* the values[i] tried
TableValues(i) ==
  IF i < TableFresh THEN {i}
  ELSE IF i = TableFresh THEN {i - TableFresh, i}
  ELSE {i - TableFresh}

\* build() has run dawg_builder.init() and is at the head of its key loop
InitTable ==
  /\ size_ = 0
  /\ array_ = NULL
  /\ buf_ = NULL
  /\ heap = <<>>
  /\ pc = "table_insert"
  /\ call = [NoCall EXCEPT !.num_keys = TableKeys,
                           !.args = [lengths |-> TRUE, values |-> TRUE,
                                     progress_func |-> FALSE]]
  /\ dawg_builder = init(DawgBuilder)
  /\ double_array_builder = DoubleArrayBuilder
  /\ calls = <<>>
  /\ old = NoSnapshot
  /\ built = <<>>
  /\ last = [op |-> "init"]
  /\ budget = 0

\* dawg_builder.insert(keys[i], lengths[i], values[i]) in the key loop
InsertTableKey ==
  /\ pc = "table_insert"
  /\ call.i < TableKeys
  /\ \E v \in TableValues(call.i) :
     \E r \in {insert(dawg_builder, TableKey(call.i), 3, v)} :
       IF r.err # ""
         THEN Throw(r.err, <<>>)
         ELSE /\ dawg_builder' = r.d
              /\ call' = [call EXCEPT !.i = @ + 1]
              /\ pc' = "table_insert"
              /\ last' = [op |-> "insert", value |-> v]
              /\ UNCHANGED double_array_builder
  /\ UNCHANGED <<size_, array_, buf_, heap, calls, old, built, budget>>

\* dawg_builder.finish() after the key loop
FinishTable ==
  /\ pc = "table_insert"
  /\ call.i = TableKeys
  /\ dawg_builder' = finish(dawg_builder)
  /\ pc' = "table_finished"
  /\ last' = [op |-> "finish"]
  /\ UNCHANGED <<size_, array_, buf_, heap, call, double_array_builder, calls,
                 old, built, budget>>

NextTable == InsertTableKey \/ FinishTable

SpecTable == InitTable /\ [][NextTable]_vars

\* the builds of few short keys and the build of the long key array
SpecDawg == (Init \/ InitTable) /\ [][Next \/ NextTable]_vars

\* ------------------------------------------------------------------------
\* The set_offset calls of the builder in a unit array of any size: only the
\* size of units_ (a multiple of BLOCK_SIZE) is kept, not its content.  The
\* relative offset comes from one of the three places the builder takes it
\* from, and is then handed to set_offset on the unit of dic_id.
\* ------------------------------------------------------------------------

\* units_.size() tried: one block, and sizes around 2^21 and 2^29
SampleSizes ==
  {BLOCK_SIZE, Pow2(21), Pow2(21) + 2 * BLOCK_SIZE, Pow2(22), Pow2(29),
   Pow2(29) + 2 * BLOCK_SIZE}

\* dic_id tried, and the offsets table_ may hold
SampleIds ==
  {0, 1, 255, 256, Pow2(21) - 1, Pow2(21), Pow2(21) + 255, Pow2(21) + 256,
   Pow2(29) - 256, Pow2(29) - 1, Pow2(29), Pow2(29) + 255}

\* the offsets unfixed_id ^ labels_[0] tried: in the window of the extras
SampleOffsets(size) ==
  {off \in {size - d : d \in {1, 255, 256, 257, NUM_EXTRAS}} : off >= 0}

\* units_[dic_id] before the call, a unit that holds no value: as reserve_id
\* left it, the root with the offset 1 build() gave it, and units with a
\* label, without and with has_leaf
SampleUnits == {W(0), W(1024), W(97), W(256 + 97), W(256 + 255)}

\* a builder whose extras are all free, about to look for an offset for a
\* node with one child
InitOffset ==
  /\ size_ = 0
  /\ array_ = NULL
  /\ buf_ = NULL
  /\ heap = <<>>
  /\ pc = "find_offset"
  /\ call = NoCall
  /\ dawg_builder = DawgBuilder
  /\ double_array_builder
       = [DoubleArrayBuilder EXCEPT !.extras_ = new_extras, !.labels_ = <<97>>]
  /\ calls = <<>>
  /\ old = NoSnapshot
  /\ built = <<>>
  /\ budget = 0
  /\ \E unit \in SampleUnits, size \in SampleSizes :
     \E dic_id \in {id \in SampleIds : id < size} :
       last = [op |-> "reserve_id", unit |-> unit, size |-> size,
               dic_id |-> dic_id]

\* find_valid_offset returns a slot of the free list that is_valid_offset
\* accepts
WalkedOffset ==
  /\ pc = "find_offset"
  /\ \E off \in SampleOffsets(last.size) :
       /\ is_valid_offset(double_array_builder, last.dic_id, off)
       /\ last' = [op |-> "find_valid_offset", unit |-> last.unit,
                   rel |-> BitXor(last.dic_id, off)]
  /\ pc' = "set_offset"
  /\ UNCHANGED <<size_, array_, buf_, heap, call, dawg_builder,
                 double_array_builder, calls, old, built, budget>>

\* find_valid_offset returns units_.size() | (id & LOWER_MASK)
FallbackOffset ==
  /\ pc = "find_offset"
  /\ last' = [op |-> "find_valid_offset", unit |-> last.unit,
              rel |-> BitXor(last.dic_id,
                             fallback_offset(last.size, last.dic_id))]
  /\ pc' = "set_offset"
  /\ UNCHANGED <<size_, array_, buf_, heap, call, dawg_builder,
                 double_array_builder, calls, old, built, budget>>

\* build_double_array finds the children laid out already, at table_'s offset
ReusedOffset ==
  /\ pc = "find_offset"
  /\ \E off \in {o \in SampleIds : o # 0 /\ o < last.size} :
       /\ reusable_offset(BitXor(off, last.dic_id))
       /\ last' = [op |-> "build_double_array", unit |-> last.unit,
                   rel |-> BitXor(off, last.dic_id)]
  /\ pc' = "set_offset"
  /\ UNCHANGED <<size_, array_, buf_, heap, call, dawg_builder,
                 double_array_builder, calls, old, built, budget>>

\* units_[dic_id].set_offset(rel)
SetOffset ==
  /\ pc = "set_offset"
  /\ last' = IF offset_too_large(last.rel)
               THEN [op |-> "set_offset", before |-> last.unit,
                     rel |-> last.rel, unit |-> last.unit,
                     thrown |-> "failed to modify unit: too large offset"]
               ELSE [op |-> "set_offset", before |-> last.unit,
                     rel |-> last.rel, unit |-> set_offset(last.unit, last.rel),
                     thrown |-> ""]
  /\ pc' = "offset_set"
  /\ UNCHANGED <<size_, array_, buf_, heap, call, dawg_builder,
                 double_array_builder, calls, old, built, budget>>

NextOffset ==
  \/ WalkedOffset
  \/ FallbackOffset
  \/ ReusedOffset
  \/ SetOffset

SpecOffset == InitOffset /\ [][NextOffset]_vars

\* ------------------------------------------------------------------------
\* What the queries are expected to return, read off the keys the held image
\* was built from.
\* ------------------------------------------------------------------------

Min(a, b) == IF a < b THEN a ELSE b

\* p < q bytewise, a proper prefix being smaller
Less(p, q) ==
  \/ Len(p) < Len(q) /\ IsPrefix(p, q)
  \/ \E j \in 1..Min(Len(p), Len(q)) :
       /\ SubSeq(p, 1, j - 1) = SubSeq(q, 1, j - 1)
       /\ p[j] < q[j]

StrictlySorted(ks) ==
  \A i \in 1..(Len(ks) - 1) : Less(ks[i].key, ks[i + 1].key)

\* a key build() accepts: non-negative value, length > 0
KeyOk(k) == k.value >= 0 /\ k.length > 0

StoredKeys == {built[i].key : i \in DOMAIN built}

\* the value stored with k: the value of its first occurrence in the input
ValueOf(k) ==
  LET i == CHOOSE i \in DOMAIN built :
             built[i].key = k /\ \A j \in 1..(i - 1) : built[j].key # k
  IN  built[i].value

\* the stored keys that are prefixes of q
Prefixes(q) == {p \in StoredKeys : IsPrefix(p, q)}

\* q is the beginning of some stored key; the empty string, which ends at
\* the root, is taken to be one even when no key is stored
OnPath(q) == q = <<>> \/ \E k \in StoredKeys : IsPrefix(q, k)

\* the number of leading bytes of q that follow some stored key
Matched(q) ==
  CHOOSE n \in 0..Len(q) :
    /\ OnPath(SubSeq(q, 1, n))
    /\ \A m \in (n + 1)..Len(q) : ~OnPath(SubSeq(q, 1, m))

MaxKeyLength(ks) ==
  IF ks = <<>> THEN 0
  ELSE CHOOSE n \in {ks[i].length : i \in DOMAIN ks} :
         \A i \in DOMAIN ks : ks[i].length <= n

WrongKeyOrder == "failed to insert key: wrong key order"

\* ------------------------------------------------------------------------
\* C1.  After build() succeeded on strictly sorted keys, exactMatchSearch of
\* a key of the input, started at node 0, returns the pair of the key's value
\* and the key's length.
\* ------------------------------------------------------------------------
C1_ExactMatchFindsKeys ==
  (last.op = "exactMatchSearch" /\ StrictlySorted(built)
     /\ last.key \in StoredKeys)
    => last.result = <<ValueOf(last.key), Len(last.key)>>

\* the key "ab" of the dictionary {"a", "ab"} is found with the largest value
C1_Witness ==
  /\ last.op = "exactMatchSearch"
  /\ Len(built) = 2
  /\ built[1].key = <<97>>
  /\ built[2].key = <<97, 98>>
  /\ last.key = <<97, 98>>
  /\ last.result = <<2147483647, 2>>

\* ------------------------------------------------------------------------
\* C2.  On every image, the one built from zero keys included,
\* exactMatchSearch of a non-empty string that is not a key of the input
\* returns -1 (with length 0 in the pair result).
\* ------------------------------------------------------------------------
C2_ExactMatchMissesNonKeys ==
  (last.op = "exactMatchSearch" /\ last.key # <<>>
     /\ last.key \notin StoredKeys)
    => last.result = <<-1, 0>>

\* a query on the image of zero keys, whose path runs into a frozen cell
C2_Witness ==
  /\ last.op = "exactMatchSearch"
  /\ array_ # NULL
  /\ built = <<>>
  /\ last.key = <<97>>
  /\ label(At(Image, BitXor(offset(At(Image, 0)), 97))) = W(97)
  /\ last.result = <<-1, 0>>

\* ------------------------------------------------------------------------
\* C3.  commonPrefixSearch returns the number n of stored keys that are
\* prefixes of the query, even when n > max_num_results; results[j] for
\* j < min(n, max_num_results) is the pair (value, length) of the prefix with
\* j shorter prefixes before it; every other entry of results[] is left
\* unwritten.
\* ------------------------------------------------------------------------
C3_CommonPrefixSearch ==
  last.op = "commonPrefixSearch" =>
    LET ps == Prefixes(last.key)
        n == Cardinality(ps)
    IN  /\ last.num_results = n
        /\ \A j \in 1..ResultCap :
             IF j <= Min(n, last.max_num_results)
               THEN \E p \in ps :
                      /\ Cardinality({p2 \in ps : Len(p2) < Len(p)}) = j - 1
                      /\ last.results[j] = <<ValueOf(p), Len(p)>>
               ELSE last.results[j] = Unwritten

\* two prefixes found with room for one: both are counted, one is written
C3_Witness ==
  /\ last.op = "commonPrefixSearch"
  /\ Len(built) = 2
  /\ built[1].key = <<97>>
  /\ built[2].key = <<97, 98>>
  /\ last.key = <<97, 98, 97>>
  /\ last.max_num_results = 1
  /\ last.num_results = 2
  /\ last.results[1] = <<built[1].value, 1>>
  /\ last.results[2] = Unwritten

\* ------------------------------------------------------------------------
\* C4.  On every image, the one built from zero keys included, traverse from
\* (node_pos, key_pos) = (0, 0) returns the value of the query if it is a
\* stored key, -1 if it is a proper prefix of a stored key and no key itself,
\* and -2 otherwise; on -2 key_pos is the index of the first byte that follows
\* no stored key and node_pos the node of the last matched byte; on the other
\* results key_pos is the length of the query.  (The empty query is expected
\* to return -1 on every image.)
\* ------------------------------------------------------------------------
C4_TraverseResult ==
  (last.op = "traverse" /\ last.first = <<>>) =>
    IF last.key \in StoredKeys
      THEN last.ret = ValueOf(last.key) /\ last.key_pos = Len(last.key)
    ELSE IF OnPath(last.key)
      THEN last.ret = -1 /\ last.key_pos = Len(last.key)
    ELSE /\ last.ret = -2
         /\ last.key_pos = Matched(last.key)
         /\ last.node_pos =
              traverse(Image, CString(SubSeq(last.key, 1, Matched(last.key))),
                       0, 0, 0).node_pos

\* traverse returns what C4 says on every image built from at least one key
TraverseResultWithKeys == built # <<>> => C4_TraverseResult

\* ------------------------------------------------------------------------
\* C5.  traverse is composable: a traverse of k1 from (0, 0) followed by a
\* traverse of k1 ++ k2 from the references the first call left returns what
\* one traverse of k1 ++ k2 from (0, 0) returns and leaves the same node_pos
\* and key_pos, also when the first call returned -2.
\* ------------------------------------------------------------------------
C5_TraverseComposes ==
  (last.op = "traverse" /\ last.first # <<>>) =>
    \A one \in {traverse(Image, CString(last.key), 0, 0, Len(last.key))} :
      /\ last.ret = one.ret
      /\ last.node_pos = one.node_pos
      /\ last.key_pos = one.key_pos

\* "a" is traversed in the dictionary {"ab"} (-1), then "ab" is found from
\* where the first call stopped
C5_Witness ==
  /\ last.op = "traverse"
  /\ last.first = <<[key |-> <<97>>, ret |-> -1]>>
  /\ last.key = <<97, 98>>
  /\ Len(built) = 1
  /\ built[1].key = <<97, 98>>
  /\ last.ret = built[1].value
  /\ last.key_pos = 2

C7_AbortKeepsImage ==
  /\ \A i \in DOMAIN call.keys : KeyOk(call.keys[i])
  /\ (last.op = "build" /\ ~("running" \in DOMAIN last)) =>
       /\ last.thrown = "" => \A i \in DOMAIN last.keys : KeyOk(last.keys[i])
       /\ (last.keys # <<>> /\ last.keys[Len(last.keys)].value < 0)
            => last.thrown = "failed to insert key: negative value"
       /\ (last.keys # <<>> /\ last.keys[Len(last.keys)].value >= 0
             /\ last.keys[Len(last.keys)].length = 0)
            => last.thrown = "failed to insert key: zero-length key"
       /\ last.thrown # "" =>
            /\ size_ = old.size_
            /\ array_ = old.array_
            /\ buf_ = old.buf_
            /\ heap = old.heap
            /\ buf_ # NULL => ~heap[buf_].freed

\* a build() that fails on a negative value while an image is held
C7_Witness ==
  /\ last.op = "build"
  /\ last.thrown = "failed to insert key: negative value"
  /\ built # <<>>
  /\ array_ # NULL
  /\ buf_ = array_
  /\ ~heap[buf_].freed
  /\ size_ = Len(Image)

\* ------------------------------------------------------------------------
\* C8.  A value 0 <= v <= 2^31 - 1 comes out of DawgNode::unit,
\* DawgUnit::value, set_value and DoubleArrayUnit::value unchanged, and the
\* label() of the value unit is none of the bytes 0..255.
\* ------------------------------------------------------------------------
C8_ValueSurvives ==
  /\ pc = "set_value" => last.value = last.v
  /\ pc = "read" =>
       /\ last.value = last.v
       /\ \A c \in 0..255 : last.label # W(c)

\* the largest value has been read back from its value unit, whose label()
\* is 0x800000FF
C8_Witness ==
  /\ pc = "read"
  /\ last.v = 2147483647
  /\ last.value = 2147483647
  /\ last.label = WOr(Bit31, W(255))

\* ------------------------------------------------------------------------
\* C9.  In a build() of n keys with a progress callback, the callback is
\* called with (i, n + 1) right after key i is inserted, for i = 1..n in
\* order, and with (n + 1, n + 1) once the new image is installed: n + 1
\* calls when build() returns; whatever a call returns, build() goes on as if
\* it had returned 0.
\* ------------------------------------------------------------------------
ExpectedCalls(n, m) == [j \in 1..m |-> <<j, n + 1>>]

C9_CallsSoFar ==
  /\ (pc \in {"insert", "progress", "finish", "build", "place", "install"}
        /\ call.args.progress_func)
       => calls = ExpectedCalls(call.num_keys,
                                IF pc = "progress" THEN call.i - 1 ELSE call.i)
  /\ pc = "progress" => Len(call.keys) = call.i
  /\ pc = "progress_final" =>
       /\ calls = ExpectedCalls(call.num_keys, call.num_keys)
       /\ Len(call.keys) = call.num_keys
       /\ built = call.keys
       /\ array_ # NULL /\ buf_ = array_ /\ ~heap[array_].freed
       /\ size_ = Len(Image)
  /\ (last.op = "build" /\ ~("running" \in DOMAIN last) /\ last.thrown = ""
        /\ last.progress_func)
       => calls = ExpectedCalls(Len(last.keys), Len(last.keys) + 1)

C9_ReturnIgnored ==
  /\ pc = "progress" =>
       /\ pc' = key_loop_next(call)
       /\ UNCHANGED <<size_, array_, buf_, heap, call, dawg_builder,
                      double_array_builder, old, built, last, budget>>
  /\ pc = "progress_final" =>
       /\ pc' = "idle"
       /\ last'.thrown = "" /\ last'.ret = 0
       /\ UNCHANGED <<size_, array_, buf_, heap, built, budget>>

C9_ProgressCalls == []C9_CallsSoFar /\ [][C9_ReturnIgnored]_vars

\* a build() of two keys has returned after its three callback calls
C9_Witness ==
  /\ last.op = "build"
  /\ ~("running" \in DOMAIN last)
  /\ last.thrown = ""
  /\ last.progress_func
  /\ Len(last.keys) = 2
  /\ calls = <<<<1, 3>>, <<2, 3>>, <<3, 3>>>>
  /\ built = last.keys

\* ------------------------------------------------------------------------
\* C10.  After finish() on strictly sorted valid keys the DAWG holds at most
\* num_keys * (max_key_length + 1) + 1 units, the root's included: every key
\* adds at most one unit per byte and one for its terminal '\0'.
\* ------------------------------------------------------------------------
C10_UnitsBound ==
  (pc = "build" /\ StrictlySorted(call.keys)) =>
    Len(dawg_builder.units_)
      <= Len(call.keys) * (MaxKeyLength(call.keys) + 1) + 1

\* the keys "a" and "b" with different values: five units, the bound itself
C10_Witness ==
  /\ pc = "build"
  /\ Len(call.keys) = 2
  /\ StrictlySorted(call.keys)
  /\ MaxKeyLength(call.keys) = 1
  /\ Len(dawg_builder.units_) = 5

\* C10 as the minimization bound is worded: after finish() on strictly sorted
\* valid keys the DAWG holds at most num_keys * max_key_length + 1 units.
C10_UnitsBoundAsStated ==
  (pc = "build" /\ StrictlySorted(call.keys)) =>
    Len(dawg_builder.units_)
      <= Len(call.keys) * MaxKeyLength(call.keys) + 1

\* ------------------------------------------------------------------------
\* The finished DAWG and the unit array made from it, as they stand when
\* DoubleArrayBuilder::build has returned (pc = "install").
\* ------------------------------------------------------------------------

RECURSIVE SiblingGroup(_, _)
\* the DAWG units of the sibling group whose head is id (none for id = 0)
SiblingGroup(dawg, id) ==
  IF id = 0 THEN {}
  ELSE {id} \cup SiblingGroup(dawg, Dawg_sibling(dawg, id))

\* the children of DAWG unit dawg_id
ChildGroup(dawg, dawg_id) == SiblingGroup(dawg, Dawg_child(dawg, dawg_id))

\* a read of the unit array that is W(0) past its end
UnitAt(units, i) == IF i < Len(units) THEN At(units, i) ELSE W(0)

\* i XOR offset(i): where the children of the node at index i are looked up
BaseOf(units, i) == BitXor(i, offset(UnitAt(units, i)))

RECURSIVE Placed(_, _, _, _)
\* the pairs <<dawg_id, dic_id>> below and including <<dawg_id, dic_id>>: the
\* root is placed at 0 and the child with label c >= 1 of a node placed at
\* dic_id is placed at dic_id XOR offset(dic_id) XOR c
Placed(units, dawg, dawg_id, dic_id) ==
  {<<dawg_id, dic_id>>} \cup
  UNION {Placed(units, dawg, c,
                BitXor(BaseOf(units, dic_id), Dawg_label(dawg, c))) :
           c \in {c \in ChildGroup(dawg, dawg_id) : Dawg_label(dawg, c) # 0}}

PlacedNodes == Placed(double_array_builder.units_, dawg_builder, 0, 0)

\* ------------------------------------------------------------------------
\* C11.  In the unit array DoubleArrayBuilder::build leaves, for every DAWG
\* node placed at index i (freshly or through an intersection's earlier
\* layout) and every child of it with byte c >= 1, the unit at
\* i XOR offset(i) XOR c has label c; has_leaf(i) is set iff the node has a
\* terminal child, and then the unit at i XOR offset(i) is a value unit
\* (bit 31 set) that holds the child's value.
\* ------------------------------------------------------------------------
C11_XorAddressing ==
  pc = "install" =>
    \A p \in PlacedNodes :
      \A base \in {BaseOf(double_array_builder.units_, p[2])} :
        /\ \A c \in ChildGroup(dawg_builder, p[1]) :
             IF Dawg_label(dawg_builder, c) # 0
               THEN label(UnitAt(double_array_builder.units_,
                                 BitXor(base, Dawg_label(dawg_builder, c))))
                      = W(Dawg_label(dawg_builder, c))
               ELSE /\ WAnd(UnitAt(double_array_builder.units_, base), Bit31)
                         = Bit31
                    /\ value(UnitAt(double_array_builder.units_, base))
                         = Dawg_value(dawg_builder, c)
        /\ has_leaf(UnitAt(double_array_builder.units_, p[2]))
             <=> \E c \in ChildGroup(dawg_builder, p[1]) :
                   Dawg_label(dawg_builder, c) = 0

\* two nodes at different indices look their children up at the same base:
\* the second reuses the layout of an intersection, and both have a terminal
\* child
C11_Witness ==
  /\ pc = "install"
  /\ \E p1, p2 \in PlacedNodes :
       /\ p1[2] # p2[2]
       /\ Dawg_child(dawg_builder, p1[1]) = Dawg_child(dawg_builder, p2[1])
       /\ Dawg_is_intersection(dawg_builder, Dawg_child(dawg_builder, p1[1]))
       /\ BaseOf(double_array_builder.units_, p1[2])
            = BaseOf(double_array_builder.units_, p2[2])
       /\ has_leaf(At(double_array_builder.units_, p1[2]))
       /\ has_leaf(At(double_array_builder.units_, p2[2]))

\* ------------------------------------------------------------------------
\* The extras of the DoubleArrayBuilder while build_double_array runs
\* (pc = "place": every call of arrange_children so far has completed).
\* ------------------------------------------------------------------------

\* the slots that still have an extras entry: the last NUM_EXTRAS units
LiveWindow(b) ==
  {id \in 0..(Len(b.units_) - 1) : id + NUM_EXTRAS >= Len(b.units_)}

UsedSlots(b) == {id \in LiveWindow(b) : extras(b, id).is_used}
FixedSlots(b) == {id \in LiveWindow(b) : extras(b, id).is_fixed}

\* the is_fixed slots that hold a node: their unit is no value unit
NodeSlots(b) ==
  {i \in FixedSlots(b) : WAnd(At(b.units_, i), Bit31) # Bit31}

\* the slots of the nodes the suspended do-while loops have still to visit:
\* offset XOR label for the children from dawg_child_id on of every frame
PendingSlots(b) ==
  UNION {{BitXor(b.stack[k].offset, Dawg_label(dawg_builder, c)) :
            c \in SiblingGroup(dawg_builder, b.stack[k].dawg_child_id)} :
         k \in DOMAIN b.stack}

\* the bases i XOR offset(i) of the nodes that were given an offset: the
\* nodes build_double_array has been called for (the relative offset it
\* sets may be 0: the base is then the slot of the node itself)
BasesInUse(b) ==
  {BaseOf(b.units_, i) : i \in NodeSlots(b) \ PendingSlots(b)}

WindowBegin(b) ==
  IF Len(b.units_) > NUM_EXTRAS THEN Len(b.units_) - NUM_EXTRAS ELSE 0

\* slot t is on the free list by right: in the live window and not is_fixed
IsFree(b, t) ==
  t >= WindowBegin(b) /\ t < Len(b.units_) /\ ~extras(b, t).is_fixed

\* no slot strictly between lo and hi is free
NoneFreeBetween(b, lo, hi) == \A t \in (lo + 1)..(hi - 1) : ~IsFree(b, t)

\* Following next from extras_head_ visits exactly the slots of the live
\* window that are not is_fixed, each once: the head is the first such slot,
\* next leads from each to the first one after it and from the last one back
\* to the head, and prev is the inverse of next; extras_head_ is
\* units_.size() iff every slot of the window is is_fixed.
FreeListOk(b) ==
  /\ b.extras_head_ = Len(b.units_) <=> NoneFreeBetween(b, -1, Len(b.units_))
  /\ b.extras_head_ # Len(b.units_) =>
       /\ IsFree(b, b.extras_head_)
       /\ NoneFreeBetween(b, -1, b.extras_head_)
       /\ \A s \in WindowBegin(b)..(Len(b.units_) - 1) :
            IsFree(b, s) =>
              \A n \in {extras(b, s).next} :
                /\ IsFree(b, n)
                /\ extras(b, n).prev = s
                /\ IF n > s THEN NoneFreeBetween(b, s, n)
                   ELSE /\ n = b.extras_head_
                        /\ NoneFreeBetween(b, s, Len(b.units_))

\* the slots arrange_children(dawg, dawg_id, dic_id) passes to reserve_id when
\* it is called on builder b: offset ^ labels_[i] for the offset it finds
ArrangeIds(b, dawg, dawg_id, dic_id) ==
  With([b EXCEPT !.labels_ = child_labels(dawg, Dawg_child(dawg, dawg_id))],
       LAMBDA b1 :
  With(find_valid_offset(b1, dic_id), LAMBDA off :
    {BitXor(off, At(b1.labels_, i)) : i \in 0..(Len(b1.labels_) - 1)}))

\* build_double_array(dawg, dawg_id, dic_id) on builder b comes to call
\* arrange_children: dawg_id has children and no earlier layout is reused
Arranges(b, dawg, dawg_id, dic_id) ==
  /\ ~Dawg_is_leaf(dawg, dawg_id)
  /\ \A c \in {Dawg_child(dawg, dawg_id)} :
       ~ /\ Dawg_is_intersection(dawg, c)
         /\ At(b.table_, Dawg_intersection_id(dawg, c)) # 0
         /\ \A rel \in {BitXor(At(b.table_, Dawg_intersection_id(dawg, c)),
                                dic_id)} :
              BitAnd(rel, UPPER_MASK) = 0 \/ BitAnd(rel, LOWER_MASK) = 0

\* every slot the call build_double_array(dawg, dawg_id, dic_id) on b passes
\* to reserve_id is beyond units_ or not is_fixed
ReservesFree(b, dawg, dawg_id, dic_id) ==
  Arranges(b, dawg, dawg_id, dic_id) =>
    \A id \in ArrangeIds(b, dawg, dawg_id, dic_id) :
      id >= Len(b.units_) \/ ~extras(b, id).is_fixed

\* the builder when DoubleArrayBuilder::build has reserved slot 0
RootReserved ==
  set_is_used(reserve_id([DoubleArrayBuilder EXCEPT !.extras_ = new_extras], 0),
              0, TRUE)

\* the slots of the unit array and the DAWG units placed in them: the placed
\* nodes, and the terminal child of a node at the node's base
SlotOwners ==
  {<<p[2], p[1]>> : p \in PlacedNodes} \cup
  UNION {{<<BaseOf(double_array_builder.units_, p[2]), t>> :
            t \in {t \in ChildGroup(dawg_builder, p[1]) :
                     Dawg_label(dawg_builder, t) = 0}} :
         p \in PlacedNodes}

\* ------------------------------------------------------------------------
\* C13.  After every completed reserve_id, expand_units and fix_block call
\* (and so between the calls of build_double_array), following next from
\* extras_head_ visits exactly the slots of the live window that are not
\* is_fixed, each once, with prev the inverse of next, and extras_head_ is
\* units_.size() iff there is no such slot; every slot build() passes to
\* reserve_id is not is_fixed, and in the finished unit array no slot holds
\* two different DAWG units.
\* ------------------------------------------------------------------------
C13_FreeList ==
  /\ pc \in {"place", "reserve_id", "fix_block"}
       => FreeListOk(double_array_builder)
  /\ (pc = "build" /\ Dawg_child(dawg_builder, 0) # 0)
       => ReservesFree(RootReserved, dawg_builder, 0, 0)
  /\ (pc = "place" /\ double_array_builder.stack # <<>>)
       => \A frame \in {Top(double_array_builder.stack)} :
            ReservesFree(double_array_builder, dawg_builder, frame.dawg_child_id,
                         BitXor(frame.offset,
                                Dawg_label(dawg_builder, frame.dawg_child_id)))
  /\ pc = "install"
       => \A o1, o2 \in SlotOwners : o1[1] = o2[1] => o1[2] = o2[2]

\* the window of extras has wrapped around (17 blocks, the oldest frozen) and
\* reserve_id has taken the head of the free list, the first slot of the
\* second block: the head moved on by one and the list is closed behind it
C13_Witness ==
  /\ pc = "reserve_id"
  /\ last.op = "reserve_id"
  /\ num_blocks(double_array_builder) > NUM_EXTRA_BLOCKS
  /\ last.id = WindowBegin(double_array_builder)
  /\ extras(double_array_builder, last.id).is_fixed
  /\ double_array_builder.extras_head_ = last.id + 1
  /\ extras(double_array_builder, last.id + 1).prev
       = Len(double_array_builder.units_) - 1
  /\ extras(double_array_builder, Len(double_array_builder.units_) - 1).next
       = last.id + 1

\* ------------------------------------------------------------------------
\* Frozen cells: the slots DoubleArrayBuilder::build leaves to fix_block.
\* ------------------------------------------------------------------------

\* every value of a key byte or query byte
AllBytes == 0..255

\* the slots reserved for a DAWG unit: slot 0 for the root (by build) and the
\* slots arrange_children reserved for the placed nodes and terminal children
ReservedSlots == {o[1] : o \in SlotOwners}

\* the node at index i, looked up with byte c, does not land on a cell that
\* only fix_block filled and that carries label c
NoFrozenMatch(units, reserved, i, c) ==
  \A j \in {BitXor(BaseOf(units, i), c)} :
    j \notin reserved => label(UnitAt(units, j)) # W(c)

\* ------------------------------------------------------------------------
\* C14.  In every unit array DoubleArrayBuilder::build leaves, the one of the
\* DAWG without keys included, for every unit i that is the root or a placed
\* non-terminal node and every byte c: if the cell i XOR offset(i) XOR c was
\* filled by fix_block only (arrange_children never reserved it), its label
\* is not c.
\* ------------------------------------------------------------------------
C14_FrozenNeverMatched ==
  pc = "install" =>
    \A reserved \in {ReservedSlots} :
      \A p \in PlacedNodes :
        \A c \in AllBytes :
          NoFrozenMatch(double_array_builder.units_, reserved, p[2], c)

\* C14 holds in every unit array built from at least one key
FrozenNeverMatchedWithKeys ==
  (pc = "install" /\ Dawg_child(dawg_builder, 0) # 0)
    => C14_FrozenNeverMatched

\* a unit array built from keys in which a placed node other than the root
\* looks a byte up in a cell that fix_block filled
FrozenCellProbed ==
  /\ pc = "install"
  /\ \E p \in PlacedNodes :
       /\ p[2] # 0
       /\ \E c \in KeyBytes :
            BitXor(BaseOf(double_array_builder.units_, p[2]), c)
              \notin ReservedSlots

\* ------------------------------------------------------------------------
\* The finished DAWG (pc = "build": finish() has returned).
\* ------------------------------------------------------------------------

\* the units that have children: the root and the units with a label >= 1
InnerUnits(dawg) ==
  {u \in 0..(Dawg_size(dawg) - 1) : ~Dawg_is_leaf(dawg, u)}

\* the units whose child() is the sibling group headed by g
ParentUnits(dawg, g) == {u \in InnerUnits(dawg) : Dawg_child(dawg, u) = g}

RECURSIVE PathsFrom(_, _, _)
RECURSIVE PathsInGroup(_, _, _)
\* the number of label paths that start at unit u and end at a unit whose
\* child() is g
PathsFrom(dawg, u, g) ==
  IF Dawg_is_leaf(dawg, u) THEN 0
  ELSE (IF Dawg_child(dawg, u) = g THEN 1 ELSE 0)
         + PathsInGroup(dawg, Dawg_child(dawg, u), g)

\* the same, summed over the sibling group from id on
PathsInGroup(dawg, id, g) ==
  IF id = 0 THEN 0
  ELSE PathsFrom(dawg, id, g) + PathsInGroup(dawg, Dawg_sibling(dawg, id), g)

\* the unit indices whose intersection bit is set
Intersections(dawg) ==
  {i \in 0..(Dawg_size(dawg) - 1) : Dawg_is_intersection(dawg, i)}

\* intersection_id maps the set bits one-to-one onto 0 .. num_intersections-1
IntersectionIdsDense(dawg) ==
  /\ \A i \in Intersections(dawg) :
       /\ Dawg_intersection_id(dawg, i) >= 0
       /\ Dawg_intersection_id(dawg, i) < Dawg_num_intersections(dawg)
  /\ \A i, j \in Intersections(dawg) :
       Dawg_intersection_id(dawg, i) = Dawg_intersection_id(dawg, j) => i = j
  /\ Cardinality(Intersections(dawg)) = Dawg_num_intersections(dawg)

\* ------------------------------------------------------------------------
\* C15 (amended).  After DawgBuilder::finish(), is_intersection(i) is set
\* exactly when i heads a sibling group that more than one path from the root
\* leads to; the group may be the child of a single parent unit that is
\* itself reached by several paths.  intersection_id maps the set bits
\* one-to-one onto 0 .. num_intersections-1.
\* ------------------------------------------------------------------------
C15_IntersectionIsShared ==
  pc = "build" =>
    /\ \A i \in 1..(Dawg_size(dawg_builder) - 1) :
         Dawg_is_intersection(dawg_builder, i)
           <=> /\ ParentUnits(dawg_builder, i) # {}
               /\ PathsFrom(dawg_builder, 0, i) > 1
    /\ ~Dawg_is_intersection(dawg_builder, 0)
    /\ IntersectionIdsDense(dawg_builder)

\* two intersections, one of them the child of a single parent unit
C15_Witness ==
  /\ pc = "build"
  /\ Dawg_num_intersections(dawg_builder) = 2
  /\ \E i \in Intersections(dawg_builder) :
       Cardinality(ParentUnits(dawg_builder, i)) = 1

\* C15 as stated: after finish(), is_intersection(i) is set only if i is the
\* head of a sibling group that is the child of more than one distinct parent
\* unit of the final units array, and intersection_id maps the set bits
\* one-to-one onto 0 .. num_intersections-1.
C15_SeveralParentUnits ==
  pc = "build" =>
    /\ \A i \in Intersections(dawg_builder) :
         Cardinality(ParentUnits(dawg_builder, i)) > 1
    /\ IntersectionIdsDense(dawg_builder)

\* the unit ids that head a sibling group: the units after a unit without
\* has_sibling (unit 0 is the root)
GroupHeads(dawg) ==
  {i \in 1..(Dawg_size(dawg) - 1) : ~DawgUnit_has_sibling(At(dawg.units_, i - 1))}

RECURSIVE GroupUnits(_, _)
\* the packed units and labels of the sibling group from id on
GroupUnits(dawg, id) ==
  IF id = 0 THEN <<>>
  ELSE <<<<At(dawg.units_, id), At(dawg.labels_, id)>>>>
         \o GroupUnits(dawg, Dawg_sibling(dawg, id))

\* no two sibling groups of units_/labels_ have the same length and pairwise
\* equal packed units and labels
NoEqualGroups(dawg) ==
  Cardinality({GroupUnits(dawg, g) : g \in GroupHeads(dawg)})
    = Cardinality(GroupHeads(dawg))

\* ------------------------------------------------------------------------
\* C16.  After the inserts of a build() and finish(), with or without a run
\* of expand_table in between, no two distinct sibling groups stored in
\* units_/labels_ are identical: flush appends a group only when find_node
\* found no equal group registered.
\* ------------------------------------------------------------------------
C16_HashConsing ==
  pc \in {"build", "table_finished"} => NoEqualGroups(dawg_builder)

\* the long key array has been built: the table was expanded (more groups
\* are registered than the initial table takes), and afterwards the groups
\* of the last keys were found equal to groups registered before, one headed
\* by a terminal unit and one headed by an is_state unit
C16_Witness ==
  /\ pc = "table_finished"
  /\ dawg_builder.num_states_
       > INITIAL_TABLE_SIZE - (INITIAL_TABLE_SIZE \div 4)
  /\ \E t, g \in Intersections(dawg_builder) :
       /\ Dawg_is_leaf(dawg_builder, t)
       /\ ~Dawg_is_leaf(dawg_builder, g)
       /\ DawgUnit_is_state(At(dawg_builder.units_, g))
       /\ g < TableFresh

\* the nodes of nodes_ that insert has appended and flush has not freed yet:
\* the node stack without the root
LiveNodes(d) == {d.node_stack_[k] : k \in 1..Len(d.node_stack_)} \ {0}

\* ------------------------------------------------------------------------
\* C17 (amended).  While the keys of a build() are inserted, a node that is
\* not yet flushed has is_state set exactly when it was the first child
\* added to its parent (its sibling is 0): a node prepended to a parent that
\* already has a child gets is_state = false, and the previous head keeps
\* its is_state.  So in the units finish() leaves, the head of every sibling
\* group is a terminal unit or has is_state set, and no other unit is.
\* ------------------------------------------------------------------------
C17_FirstChildIsState ==
  /\ pc \in {"insert", "progress", "finish"} =>
       \A n \in LiveNodes(dawg_builder) :
         At(dawg_builder.nodes_, n).is_state
           <=> At(dawg_builder.nodes_, n).sibling = 0
  /\ pc = "build" =>
       \A i \in 1..(Dawg_size(dawg_builder) - 1) :
         i \in GroupHeads(dawg_builder)
           <=> \/ Dawg_label(dawg_builder, i) = 0
               \/ DawgUnit_is_state(At(dawg_builder.units_, i))

\* a node with a label was prepended to a parent whose first child has a
\* label too: the previous head still has is_state set
C17_Witness ==
  /\ pc = "finish"
  /\ \E n \in LiveNodes(dawg_builder) :
       \E head \in {At(dawg_builder.nodes_, n).sibling} :
         /\ head # 0
         /\ At(dawg_builder.nodes_, n).label # 0
         /\ ~At(dawg_builder.nodes_, n).is_state
         /\ At(dawg_builder.nodes_, head).label # 0
         /\ At(dawg_builder.nodes_, head).is_state

\* C17 as stated: when a node is prepended to a parent that already has a
\* child, the previous head of the chain has is_state false afterwards, and
\* the new node has is_state set only when it is the parent's first child.
C17_PreviousHeadLosesState ==
  pc \in {"insert", "progress", "finish"} =>
    \A n \in LiveNodes(dawg_builder) :
      \A head \in {At(dawg_builder.nodes_, n).sibling} :
        /\ At(dawg_builder.nodes_, n).is_state => head = 0
        /\ head # 0 => ~At(dawg_builder.nodes_, head).is_state

\* ------------------------------------------------------------------------
\* C18.  For every set_offset(rel) call the builder makes, with rel from
\* build_double_array's reuse branch or from find_valid_offset (a walked
\* candidate or the fallback units_.size() | (dic_id & 0xFF)): the call
\* throws iff rel >= 2^29; otherwise rel < 2^21 or rel & 0xFF == 0, offset()
\* of the written unit is rel, and label (with bit 31) and has_leaf of the
\* unit are as before.
\* ------------------------------------------------------------------------
C18_OffsetRoundTrip ==
  pc = "offset_set" =>
    /\ last.thrown # "" <=> last.rel >= Pow2(29)
    /\ last.thrown = "" =>
         /\ last.rel < Pow2(21) \/ BitAnd(last.rel, LOWER_MASK) = 0
         /\ offset(last.unit) = last.rel
         /\ label(last.unit) = label(last.before)
         /\ has_leaf(last.unit) <=> has_leaf(last.before)

\* an offset of 2^21 or more was stored, in the form with bit 9 set, in a
\* unit that has a label and has_leaf
C18_Witness ==
  /\ pc = "offset_set"
  /\ last.thrown = ""
  /\ last.rel >= Pow2(21)
  /\ WAnd(last.unit, W(512)) = W(512)
  /\ has_leaf(last.unit)
  /\ label(last.unit) = W(97)
  /\ offset(last.unit) = last.rel

\* the last key of keys is byte-equal to the one before it, and its value is
\* one insert accepts
DuplicateOfPrevious(keys) ==
  /\ Len(keys) >= 2
  /\ keys[Len(keys)].key = keys[Len(keys) - 1].key
  /\ keys[Len(keys)].length = keys[Len(keys) - 1].length
  /\ keys[Len(keys)].value >= 0

\* the keys handed to insert so far, after a step of the key loop: those of
\* the running call, or those of the call the step ended by a throw
KeysAfterInsert == IF pc' = "idle" THEN last'.keys ELSE call'.keys

\* a step of the key loop that inserts a key equal to the key before it
InsertsDuplicate ==
  /\ pc = "insert"
  /\ Len(KeysAfterInsert) = Len(call.keys) + 1
  /\ DuplicateOfPrevious(KeysAfterInsert)

\* the key loop inserted a key twice in a row without a throw, and the
\* DawgBuilder is as it was
DuplicateIgnored == pc' # "idle" /\ dawg_builder' = dawg_builder

\* a stored key was given twice in a row, with different values, and
\* exactMatchSearch found it
FoundDuplicate ==
  /\ last.op = "exactMatchSearch"
  /\ \E i \in 1..(Len(built) - 1) :
       /\ built[i].key = last.key
       /\ built[i + 1].key = last.key
       /\ built[i + 1].value >= 0
       /\ built[i + 1].value # built[i].value
       /\ \A j \in 1..(i - 1) : built[j].key # last.key

\* ------------------------------------------------------------------------
\* C19.  insert of a key byte-equal to the key inserted just before it (with
\* a value insert accepts) throws nothing and leaves the whole DawgBuilder
\* as it was: nodes, node stack, units, labels, hash table, counters.  The
\* value given first is the one exactMatchSearch returns.
\* ------------------------------------------------------------------------
C19_DuplicateKeyIgnored ==
  /\ [][InsertsDuplicate => DuplicateIgnored]_vars
  /\ [](FoundDuplicate => last.result = <<ValueOf(last.key), Len(last.key)>>)

\* the key given twice was found, with the value of its first occurrence
C19_Witness ==
  /\ FoundDuplicate
  /\ last.result = <<built[1].value, Len(last.key)>>
  /\ built[2].key = built[1].key
  /\ Len(last.key) = MaxLen

====
